---- MODULE Spec2Model ----
(***************************************************************************)
(* Verification model of the energy-reports scripts:                       *)
(*   - providers/llm_client.py      LLMClient.generate (provider fallback) *)
(*   - scripts/{oil,gas}/tools.py   sent_guard (daily sentinel)            *)
(*   - scripts/*/..._daily*.py      main of the LLM daily scripts          *)
(*   - scripts/tools/check_main_ran.py  watchdog pre-check                 *)
(* Each component has its own variables and its own specification; the     *)
(* variables of the other components are parked while one is explored.     *)
(***************************************************************************)
EXTENDS Integers, Sequences, FiniteSets, TLC

\* Python None where a name is expected, and where a text or an error is.
None == "None"
NoVal == <<>>
\* The caller has not built its dict yet.
NoOut == [texto |-> NoVal, provider |-> None, built |-> FALSE]

(***************************************************************************)
(* State                                                                   *)
(***************************************************************************)

\* providers/llm_client.py: one LLMClient and one call of generate.
VARIABLES
    order,            \* self.order
    apiKeys,          \* providers whose *_API_KEY is set
    pos,              \* position of the for loop in self.order (1-based)
    active_provider,  \* self.active_provider
    last_error,       \* local last_error of generate
    calls,            \* history: provider calls made, in the order made
    outcome,          \* "running" | "returned" | "raised"
    text,             \* value returned by generate
    reported,         \* the error quoted in the RuntimeError
    caller_out        \* dict built by gerar_analise_* after generate

llmVars == <<order, apiKeys, pos, active_provider, last_error, calls,
             outcome, text, reported, caller_out>>

\* scripts/*/tools.py and the daily scripts: one sentinel, run after run.
VARIABLES
    now,         \* datetime.now(timezone.utc), in hours
    sentinel,    \* content of the sentinel path
    runPc,       \* "idle" | "guard" | "counter" | "context" | "llm" | "send"
    args,        \* --force, --send-telegram of the current run
    counter,     \* value under the script's key in the counter file
    runs,        \* history: one record per run that reached the guard
    lastEnd,     \* history: how the latest run ended
    lastGuard,   \* history: the last sent_guard call
    posted       \* history: BRT days on which a report was posted to the chat

guardVars == <<now, sentinel, runPc, args, counter, runs, lastEnd, lastGuard,
               posted>>

\* Two overlapping runs of one daily script on the sentinel above.
VARIABLES
    racePc,      \* per run: position inside sent_guard and main
    raceRet,     \* per run: what sent_guard returned ("none" before)
    raceAfter,   \* history, per run: it entered sent_guard after the other
                 \* run had left it
    raceSent     \* history: the runs that posted a report

raceVars == <<racePc, raceRet, raceAfter, raceSent>>

\* scripts/tools/check_main_ran.py: one run of the watchdog pre-check.
VARIABLES
    ckPc,        \* position in the module and in main
    ckEnv,       \* os.environ: GITHUB_REPOSITORY, GITHUB_TOKEN, CHECK_MAIN_*
    ckMaxWait,   \* max_wait
    ckInterval,  \* interval
    ckClock,     \* time.time(), in seconds since the process started
    ckStart,     \* start
    ckWfId,      \* wf_id (0 for None)
    ckRound,     \* 0 for the immediate round, n for the n-th polling round
    ckChecks,    \* history: the checks made, in the order made
    ckExit,      \* exit status of the process (-1 while it runs)
    ckHow        \* history: the statement that ended the process

checkVars == <<ckPc, ckEnv, ckMaxWait, ckInterval, ckClock, ckStart, ckWfId,
               ckRound, ckChecks, ckExit, ckHow>>

\* What each component leaves alone.

\* compute_metrics of coal_daily, rbob_daily and jkm_lng_daily: one call.
VARIABLES
    mScript,     \* the script whose compute_metrics is called
    mObs,        \* obs: the list get_fred_series returned
    mPc,         \* "call" | "returned" | "raised"
    mOut         \* the dict compute_metrics returned

metricVars == <<mScript, mObs, mPc, mOut>>


\* gas/fetch_prices.py: one call of fetch_prices.
VARIABLES
    fpEnv,       \* EIA_API_KEY, ALPHA_VANTAGE_API_KEY, NASDAQ_DATA_LINK_API_KEY,
                 \* FRED_API_KEY as the environment holds them
    fpPc,        \* "eia" | "alpha" | "nasdaq" | "fred" | "mock" | "returned"
    fpTried,     \* history: the sources called, in the order called
    fpResult,    \* the dict fetch_prices returned
    fpFrom       \* history: where the returned dict came from

priceVars == <<fpEnv, fpPc, fpTried, fpResult, fpFrom>>


\* send_to_telegram of oil/tools.py and gas/tools.py: one call.
VARIABLES
    tgScript,    \* whose tools.py: "oil" | "gas"
    tgEnv,       \* TELEGRAM_BOT_TOKEN, TELEGRAM_CHAT_ID_ENERGY,
                 \* TELEGRAM_CHAT_ID_TEST, TELEGRAM_MESSAGE_THREAD_ID
    tgRequests,  \* the requests module can be imported
    tgPreview,   \* the preview argument
    tgPc,        \* "call" | "post" | "returned"
    tgPosts,     \* history: the sendMessage requests made
    tgPrinted    \* history: what the call printed last

tgVars == <<tgScript, tgEnv, tgRequests, tgPreview, tgPc, tgPosts, tgPrinted>>


\* energy/coal_daily.py: one run of main.
VARIABLES
    coEnv,       \* HAS_LLM_KEYS, and whether llm_client could be imported
    coPc,        \* "idle" | "fetch" | "build" | "save" | "send" | "notify"
                 \* | "done" | "raised"
    coObs,       \* obs
    coReport,    \* report
    coBuild,     \* history: how build_structured_report went
    coSaved,     \* the JSON written to args.out
    coPosts,     \* history: the sendMessage requests made
    coError,     \* the exception the except clause of main caught
    coRaised     \* the exception main ended with

coalVars == <<coEnv, coPc, coObs, coReport, coBuild, coSaved, coPosts,
              coError, coRaised>>


\* energy/smoke_check_inventories.py: one run of the script.
VARIABLES
    smFiles,     \* the three CSVs named by sys.argv[1..3]
    smNow,       \* pd.Timestamp.utcnow(), in hours
    smPc,        \* "check" | "ok" | "exit"
    smArg,       \* the argument check() is called on next (1..3)
    smChecked,   \* history: the arguments check() was called on
    smExit       \* exit status of the process (-1 while it runs)

smokeVars == <<smFiles, smNow, smPc, smArg, smChecked, smExit>>


\* title_counter of oil/tools.py and gas/tools.py: calls by two scripts on
\* one counter file.
VARIABLES
    ctFile,      \* content of counter_path
    ctPc,        \* per script: "idle" | "exists" | "load" | "open" | "dump"
    ctKey,       \* per script: the key argument of its call
    ctData,      \* per script: the local dict data
    ctBefore,    \* history, per script: the file when its call began
    ctOverlap,   \* history, per script: its call ran while another did
    ctCalls,     \* calls made so far, by either script
    ctLog        \* history: the calls that returned, in the order returned

counterVars == <<ctFile, ctPc, ctKey, ctData, ctBefore, ctOverlap, ctCalls,
                 ctLog>>


\* fetch_uranium_from_fred of energy/uranium_daily.py: one call.
VARIABLES
    urReply,     \* what the request to FRED gives
    urPc,        \* "idle" | "call" | "returned" | "raised"
    urRows,      \* the rows of the data frame returned
    urError      \* the exception raised ("none" while there is none)

uraniumVars == <<urReply, urPc, urRows, urError>>


\* main of gas/rbob_daily.py and gas/jkm_lng_daily.py: one run.
VARIABLES
    gdScript,    \* "rbob" | "jkm"
    gdOut,       \* os.path.dirname(args.out): "" or a directory
    gdPc,        \* "idle" | "fetch" | "build" | "makedirs" | "save" | "send"
                 \* | "except" | "done" | "raised"
    gdObs,       \* obs: what get_fred_series returned
    gdResult,    \* result: the dict to be dumped
    gdSaved,     \* content of the file args.out
    gdPosts,     \* history: the sendMessage requests made, with their replies
    gdError      \* the exception caught by except Exception as e

gasVars == <<gdScript, gdOut, gdPc, gdObs, gdResult, gdSaved, gdPosts,
             gdError>>

outsideLLM == <<guardVars, raceVars, checkVars, metricVars, priceVars,
                tgVars, coalVars, smokeVars, counterVars, uraniumVars,
                gasVars>>
outsideGuard == <<llmVars, raceVars, checkVars, metricVars, priceVars,
                  tgVars, coalVars, smokeVars, counterVars, uraniumVars,
                  gasVars>>
outsideRace == <<llmVars, runPc, args, counter, runs, lastEnd, lastGuard,
                 posted, checkVars, metricVars, priceVars, tgVars, coalVars,
                 smokeVars, counterVars, uraniumVars, gasVars>>
outsideCheck == <<llmVars, guardVars, raceVars, metricVars, priceVars,
                  tgVars, coalVars, smokeVars, counterVars, uraniumVars,
                  gasVars>>
outsideMetrics == <<llmVars, guardVars, raceVars, checkVars, priceVars,
                    tgVars, coalVars, smokeVars, counterVars, uraniumVars,
                    gasVars>>
outsidePrices == <<llmVars, guardVars, raceVars, checkVars, metricVars,
                   tgVars, coalVars, smokeVars, counterVars, uraniumVars,
                   gasVars>>
outsideTelegram == <<llmVars, guardVars, raceVars, checkVars, metricVars,
                     priceVars, coalVars, smokeVars, counterVars,
                     uraniumVars, gasVars>>
outsideCoal == <<llmVars, guardVars, raceVars, checkVars, metricVars,
                 priceVars, tgVars, smokeVars, counterVars, uraniumVars,
                 gasVars>>
outsideSmoke == <<llmVars, guardVars, raceVars, checkVars, metricVars,
                  priceVars, tgVars, coalVars, counterVars, uraniumVars,
                  gasVars>>
outsideCounter == <<llmVars, guardVars, raceVars, checkVars, metricVars,
                    priceVars, tgVars, coalVars, smokeVars, uraniumVars,
                    gasVars>>
outsideUranium == <<llmVars, guardVars, raceVars, checkVars, metricVars,
                    priceVars, tgVars, coalVars, smokeVars, counterVars,
                    gasVars>>
outsideGas == <<llmVars, guardVars, raceVars, checkVars, metricVars,
                priceVars, tgVars, coalVars, smokeVars, counterVars,
                uraniumVars>>

(***************************************************************************)
(* providers/llm_client.py                                                 *)
(***************************************************************************)

\* The four provider names generate dispatches on (lines 106-116).
KnownProviders == {"piapi", "groq", "openai", "deepseek"}

\* A name LLM_FALLBACK_ORDER may hold that generate does not dispatch on
\* (a typo, a name with a blank, the empty string).
UnknownName == "other"

ProviderNames == KnownProviders \cup {UnknownName}

\* Longest LLM_FALLBACK_ORDER explored.
MaxOrder == 3

\* Outcomes of the HTTP exchange of one provider call.
HttpOutcomes == {"ok", "http_error", "bad_body"}

\* str.split(",") never returns an empty list.
Orders == UNION {[1..n -> ProviderNames] : n \in 1..MaxOrder}

\* _piapi/_groq/_openai/_deepseek: raise when the key is missing, raise when
\* the HTTP exchange fails or the body lacks choices[0].message.content,
\* return the content otherwise.  The text is tagged with its producer.
ProviderCall(name, at, keys, http) ==
    IF name \notin keys
      THEN [ok |-> FALSE, val |-> <<"err", name, at, "no_key">>]
      ELSE IF http = "ok"
        THEN [ok |-> TRUE, val |-> <<"text", name, at, "content">>]
        ELSE [ok |-> FALSE, val |-> <<"err", name, at, http>>]

InitLLM ==
    /\ order \in Orders
    /\ apiKeys \in SUBSET KnownProviders
    /\ pos = 1
    /\ active_provider = None
    /\ last_error = NoVal
    /\ calls = <<>>
    /\ outcome = "running"
    /\ text = NoVal
    /\ reported = NoVal
    /\ caller_out = NoOut

\* One iteration whose provider call returns: generate returns the text.
IterReturnNoAssign ==
    /\ UNCHANGED outsideLLM
    /\ outcome = "running"
    /\ pos <= Len(order)
    /\ order[pos] \in KnownProviders
    /\ \E http \in HttpOutcomes :
         LET r == ProviderCall(order[pos], pos, apiKeys, http) IN
         /\ r.ok
         /\ calls' = Append(calls, [at |-> pos, name |-> order[pos], ok |-> TRUE, val |-> r.val])
         /\ text' = r.val
         /\ outcome' = "returned"
    /\ UNCHANGED <<order, apiKeys, pos, active_provider, last_error,
                   reported, caller_out>>

IterReturnNoStop ==
    /\ UNCHANGED outsideLLM
    /\ outcome = "running"
    /\ pos <= Len(order)
    /\ order[pos] \in KnownProviders
    /\ active_provider' = order[pos]
    /\ \E http \in HttpOutcomes :
         LET r == ProviderCall(order[pos], pos, apiKeys, http) IN
         /\ r.ok
         /\ calls' = Append(calls, [at |-> pos, name |-> order[pos], ok |-> TRUE, val |-> r.val])
         /\ text' = IF text = NoVal THEN r.val ELSE text
         /\ outcome' = IF pos = Len(order) THEN "returned" ELSE "running"
         /\ pos' = IF pos = Len(order) THEN pos ELSE pos + 1
    /\ UNCHANGED <<order, apiKeys, last_error, reported, caller_out>>

IterReturn ==
    /\ UNCHANGED outsideLLM
    /\ outcome = "running"
    /\ pos <= Len(order)
    /\ order[pos] \in KnownProviders
    /\ active_provider' = order[pos]
    /\ \E http \in HttpOutcomes :
         LET r == ProviderCall(order[pos], pos, apiKeys, http) IN
         /\ r.ok
         /\ calls' = Append(calls, [at |-> pos, name |-> order[pos], ok |-> TRUE, val |-> r.val])
         /\ text' = r.val
         /\ outcome' = "returned"
    /\ UNCHANGED <<order, apiKeys, pos, last_error, reported, caller_out>>

\* One iteration whose provider call raises: remember the error, continue.
IterExceptReraise ==
    /\ UNCHANGED outsideLLM
    /\ outcome = "running"
    /\ pos <= Len(order)
    /\ order[pos] \in KnownProviders
    /\ active_provider' = order[pos]
    /\ \E http \in HttpOutcomes :
         LET r == ProviderCall(order[pos], pos, apiKeys, http) IN
         /\ ~r.ok
         /\ calls' = Append(calls, [at |-> pos, name |-> order[pos], ok |-> FALSE, val |-> r.val])
         /\ last_error' = r.val
         /\ reported' = r.val
    /\ outcome' = "raised"
    /\ UNCHANGED <<order, apiKeys, pos, text, caller_out>>

IterExcept ==
    /\ UNCHANGED outsideLLM
    /\ outcome = "running"
    /\ pos <= Len(order)
    /\ order[pos] \in KnownProviders
    /\ active_provider' = order[pos]
    /\ \E http \in HttpOutcomes :
         LET r == ProviderCall(order[pos], pos, apiKeys, http) IN
         /\ ~r.ok
         /\ calls' = Append(calls, [at |-> pos, name |-> order[pos], ok |-> FALSE, val |-> r.val])
         /\ last_error' = r.val
    /\ pos' = pos + 1
    /\ UNCHANGED <<order, apiKeys, outcome, text, reported, caller_out>>

\* One iteration whose name matches none of the four ifs: the try block
\* ends without a call and without an exception, the loop goes on.
IterFallThrough ==
    /\ UNCHANGED outsideLLM
    /\ outcome = "running"
    /\ pos <= Len(order)
    /\ order[pos] \notin KnownProviders
    /\ active_provider' = order[pos]
    /\ pos' = pos + 1
    /\ UNCHANGED <<order, apiKeys, last_error, calls, outcome, text,
                   reported, caller_out>>

\* The loop is exhausted: raise RuntimeError quoting last_error.
RaiseAllFailed ==
    /\ UNCHANGED outsideLLM
    /\ outcome = "running"
    /\ pos > Len(order)
    /\ outcome' = "raised"
    /\ reported' = last_error
    /\ UNCHANGED <<order, apiKeys, pos, active_provider, last_error, calls,
                   text, caller_out>>

\* gerar_analise_*: {"texto": texto, "provider": llm.active_provider}.
CallerRead ==
    /\ UNCHANGED outsideLLM
    /\ outcome = "returned"
    /\ caller_out = NoOut
    /\ caller_out' = [texto |-> text, provider |-> active_provider, built |-> TRUE]
    /\ UNCHANGED <<order, apiKeys, pos, active_provider, last_error, calls,
                   outcome, text, reported>>

NextLLM ==
    \/ IterReturn
    \/ IterExcept
    \/ IterFallThrough
    \/ RaiseAllFailed
    \/ CallerRead

(***************************************************************************)
(* scripts/oil/tools.py, scripts/gas/tools.py: sent_guard                  *)
(* scripts/oil/oil_daily.py, scripts/gas/gas_daily.py,                     *)
(* scripts/gas/jet_fuel_daily_llm.py, scripts/gas/ulsd_daily_llm.py: main  *)
(***************************************************************************)

\* BRT_OFFSET = timedelta(hours=-3), as hours behind UTC.
BRT_OFFSET_HOURS == 3

HoursPerDay == 24

\* The clock advances in steps of TickHours, up to MaxHours (UTC hours).
TickHours == 8
MaxHours == 48

\* Runs of the daily script explored.
MaxRuns == 3

\* (datetime.now(timezone.utc) + BRT_OFFSET) as a calendar day number.
BrtDay(utcHours) == (utcHours - BRT_OFFSET_HOURS) \div HoursPerDay

\* strftime('%Y-%m-%d') of that day: the string the sentinel stores.
TodayTag(utcHours) == <<"ymd", BrtDay(utcHours)>>

Days == BrtDay(0)..BrtDay(MaxHours + TickHours)

\* Values json.load may give for the 'last_sent' key: absent, a string
\* that is no '%Y-%m-%d' date, or the tag of a day.
NoKey == <<"absent", 0>>
OtherValue == <<"other", 0>>

\* The sentinel path on disk.
\*   missing : os.path.exists is False
\*   garbage : open or json.load raises (empty, truncated, not UTF-8, not JSON)
\*   nondict : JSON that is no object (data.get raises AttributeError)
\*   dict    : a JSON object, with its last_sent and whether it has other keys
Missing == [kind |-> "missing", last_sent |-> NoKey, extra |-> FALSE]
Garbage == [kind |-> "garbage", last_sent |-> NoKey, extra |-> FALSE]
NonDict == [kind |-> "nondict", last_sent |-> NoKey, extra |-> FALSE]
DictFile(v, x) == [kind |-> "dict", last_sent |-> v, extra |-> x]

\* json.dump({'last_sent': today_tag}, open(path, 'w')).
Fresh(tag) == DictFile(tag, FALSE)

\* Sentinel files a first run may find: none, a damaged one, or one an
\* earlier run (or a commit) left, dated no later than day.
FilesUpTo(day) ==
    {Missing, Garbage, NonDict}
      \cup {DictFile(v, x) : v \in {NoKey, OtherValue}, x \in BOOLEAN}
      \cup {DictFile(<<"ymd", d>>, x) : d \in {e \in Days : e <= day}, x \in BOOLEAN}

\* sent_guard(path) at UTC time t on sentinel f: the value returned and the
\* sentinel left behind.
SentGuardNoWrite(f, t) ==
    IF f.kind = "dict" /\ f.last_sent = TodayTag(t)
      THEN [ret |-> TRUE, file |-> f]
      ELSE [ret |-> FALSE, file |-> f]

SentGuardUtcDate(f, t) ==
    LET utcTag == <<"ymd", t \div HoursPerDay>> IN
    IF f.kind = "dict" /\ f.last_sent = utcTag
      THEN [ret |-> TRUE, file |-> f]
      ELSE [ret |-> FALSE, file |-> Fresh(utcTag)]

SentGuard(f, t) ==
    LET today_tag == TodayTag(t) IN
    IF f.kind # "missing"
      THEN IF f.kind = "dict"
             THEN IF f.last_sent = today_tag
                    THEN [ret |-> TRUE, file |-> f]
                    ELSE [ret |-> FALSE, file |-> Fresh(today_tag)]
             ELSE \* open, json.load or data.get raised: except ... pass
                  [ret |-> FALSE, file |-> Fresh(today_tag)]
      ELSE [ret |-> FALSE, file |-> Fresh(today_tag)]

NoArgs == [force |-> FALSE, send_telegram |-> FALSE]
NoGuardCall == [called |-> FALSE, before |-> Missing, at |-> 0,
                ret |-> FALSE, after |-> Missing]

\* A sentinel dated d stems from an earlier run; the history starts with a
\* report posted on that day, so that the start agrees with what the
\* sentinel is documented to mean.
InitGuard ==
    /\ now \in {0, TickHours}
    /\ sentinel \in FilesUpTo(BrtDay(now))
    /\ runPc = "idle"
    /\ args = NoArgs
    /\ counter = 0
    /\ runs = <<>>
    /\ lastEnd = "none"
    /\ lastGuard = NoGuardCall
    /\ posted = IF sentinel.last_sent[1] = "ymd" THEN {sentinel.last_sent[2]} ELSE {}

\* Time passes, between runs and within one.
Tick ==
    /\ UNCHANGED outsideGuard
    /\ now + TickHours <= MaxHours
    /\ now' = now + TickHours
    /\ UNCHANGED <<sentinel, runPc, args, counter, runs, lastEnd, lastGuard,
                   posted>>

\* The scheduler (or a person) starts the script; argparse reads the flags.
StartRun ==
    /\ UNCHANGED outsideGuard
    /\ runPc = "idle"
    /\ Len(runs) < MaxRuns
    /\ \E f, s \in BOOLEAN : args' = [force |-> f, send_telegram |-> s]
    /\ runPc' = "guard"
    /\ lastEnd' = "running"
    /\ UNCHANGED <<now, sentinel, counter, runs, lastGuard, posted>>

\* if not args.force and sent_guard(sent_path): ... return  (with --force)
GuardForced ==
    /\ UNCHANGED outsideGuard
    /\ runPc = "guard"
    /\ args.force
    /\ runs' = Append(runs, [day |-> BrtDay(now), force |-> TRUE, passed |-> TRUE])
    /\ runPc' = "counter"
    /\ UNCHANGED <<now, sentinel, args, counter, lastEnd, lastGuard, posted>>

\* ... sent_guard returned True: print and return.
GuardStops ==
    /\ UNCHANGED outsideGuard
    /\ runPc = "guard"
    /\ ~args.force
    /\ LET g == SentGuard(sentinel, now) IN
       /\ g.ret
       /\ sentinel' = g.file
       /\ lastGuard' = [called |-> TRUE, before |-> sentinel, at |-> now,
                        ret |-> g.ret, after |-> g.file]
    /\ runs' = Append(runs, [day |-> BrtDay(now), force |-> FALSE, passed |-> FALSE])
    /\ runPc' = "idle"
    /\ args' = NoArgs
    /\ lastEnd' = "stopped"
    /\ UNCHANGED <<now, counter, posted>>

\* ... sent_guard returned False: the run goes on.
GuardPasses ==
    /\ UNCHANGED outsideGuard
    /\ runPc = "guard"
    /\ ~args.force
    /\ LET g == SentGuard(sentinel, now) IN
       /\ ~g.ret
       /\ sentinel' = g.file
       /\ lastGuard' = [called |-> TRUE, before |-> sentinel, at |-> now,
                        ret |-> g.ret, after |-> g.file]
    /\ runs' = Append(runs, [day |-> BrtDay(now), force |-> FALSE, passed |-> TRUE])
    /\ runPc' = "counter"
    /\ UNCHANGED <<now, args, counter, lastEnd, posted>>

\* numero = title_counter(args.counter_path, key=...)
TitleCounter ==
    /\ UNCHANGED outsideGuard
    /\ runPc = "counter"
    /\ counter' = counter + 1
    /\ runPc' = "context"
    /\ UNCHANGED <<now, sentinel, args, runs, lastEnd, lastGuard, posted>>

\* contexto = build_context_block(): the price fetch returns ...
ContextBuilt ==
    /\ UNCHANGED outsideGuard
    /\ runPc = "context"
    /\ runPc' = "llm"
    /\ UNCHANGED <<now, sentinel, args, counter, runs, lastEnd, lastGuard,
                   posted>>

\* ... or raises (no FRED_API_KEY, HTTP failure): the run dies.
ContextRaises ==
    /\ UNCHANGED outsideGuard
    /\ runPc = "context"
    /\ runPc' = "idle"
    /\ args' = NoArgs
    /\ lastEnd' = "context_error"
    /\ UNCHANGED <<now, sentinel, counter, runs, lastGuard, posted>>

\* llm.generate returns a text and --send-telegram was given.
LlmReturnsToSend ==
    /\ UNCHANGED outsideGuard
    /\ runPc = "llm"
    /\ args.send_telegram
    /\ runPc' = "send"
    /\ UNCHANGED <<now, sentinel, args, counter, runs, lastEnd, lastGuard,
                   posted>>

\* llm.generate returns a text, no --send-telegram: the run only prints.
LlmReturnsToPrint ==
    /\ UNCHANGED outsideGuard
    /\ runPc = "llm"
    /\ ~args.send_telegram
    /\ runPc' = "idle"
    /\ args' = NoArgs
    /\ lastEnd' = "printed"
    /\ UNCHANGED <<now, sentinel, counter, runs, lastGuard, posted>>

\* llm.generate raises RuntimeError (every provider failed): the run dies.
LlmRaises ==
    /\ UNCHANGED outsideGuard
    /\ runPc = "llm"
    /\ runPc' = "idle"
    /\ args' = NoArgs
    /\ lastEnd' = "llm_error"
    /\ UNCHANGED <<now, sentinel, counter, runs, lastGuard, posted>>

\* send_to_telegram: the post succeeds.
TelegramPosted ==
    /\ UNCHANGED outsideGuard
    /\ runPc = "send"
    /\ posted' = posted \cup {BrtDay(now)}
    /\ runPc' = "idle"
    /\ args' = NoArgs
    /\ lastEnd' = "posted"
    /\ UNCHANGED <<now, sentinel, counter, runs, lastGuard>>

\* send_to_telegram: no token or chat id, or the post fails; nothing is
\* raised to main.
TelegramNotPosted ==
    /\ UNCHANGED outsideGuard
    /\ runPc = "send"
    /\ runPc' = "idle"
    /\ args' = NoArgs
    /\ lastEnd' = "not_posted"
    /\ UNCHANGED <<now, sentinel, counter, runs, lastGuard, posted>>

NextGuard ==
    \/ Tick
    \/ StartRun
    \/ GuardForced
    \/ GuardStops
    \/ GuardPasses
    \/ TitleCounter
    \/ ContextBuilt
    \/ ContextRaises
    \/ LlmReturnsToSend
    \/ LlmReturnsToPrint
    \/ LlmRaises
    \/ TelegramPosted
    \/ TelegramNotPosted

(***************************************************************************)
(* sent_guard, statement by statement, under two overlapping runs          *)
(***************************************************************************)

Runs == {"run_a", "run_b"}

Other(r) == CHOOSE q \in Runs : q # r

\* Positions at which a run has left sent_guard.
LeftGuard == {"returned", "sent", "ended"}

InitRace ==
    /\ now \in {0, TickHours, TickHours + TickHours}
    /\ sentinel \in FilesUpTo(BrtDay(now))
    /\ racePc = [r \in Runs |-> "exists"]
    /\ raceRet = [r \in Runs |-> "none"]
    /\ raceAfter = [r \in Runs |-> FALSE]
    /\ raceSent = {}

\* if os.path.exists(path):
RaceExists(r) ==
    /\ UNCHANGED outsideRace
    /\ racePc[r] = "exists"
    /\ racePc' = [racePc EXCEPT ![r] =
                    IF sentinel.kind # "missing" THEN "load" ELSE "open_w"]
    /\ raceAfter' = [raceAfter EXCEPT ![r] = racePc[Other(r)] \in LeftGuard]
    /\ UNCHANGED <<now, sentinel, raceRet, raceSent>>

\* data = json.load(open(path)); if data.get('last_sent') == today_tag:
\* return True; any exception is passed over.
RaceLoadIgnored(r) ==
    /\ UNCHANGED outsideRace
    /\ racePc[r] = "load"
    /\ racePc' = [racePc EXCEPT ![r] = "open_w"]
    /\ UNCHANGED <<now, sentinel, raceRet, raceAfter, raceSent>>

RaceLoad(r) ==
    /\ UNCHANGED outsideRace
    /\ racePc[r] = "load"
    /\ IF sentinel.kind = "dict" /\ sentinel.last_sent = TodayTag(now)
         THEN /\ racePc' = [racePc EXCEPT ![r] = "returned"]
              /\ raceRet' = [raceRet EXCEPT ![r] = "True"]
         ELSE /\ racePc' = [racePc EXCEPT ![r] = "open_w"]
              /\ UNCHANGED raceRet
    /\ UNCHANGED <<now, sentinel, raceAfter, raceSent>>

\* open(path, 'w'): the file is truncated before anything is written.
RaceOpenW(r) ==
    /\ UNCHANGED outsideRace
    /\ racePc[r] = "open_w"
    /\ sentinel' = Garbage
    /\ racePc' = [racePc EXCEPT ![r] = "dump"]
    /\ UNCHANGED <<now, raceRet, raceAfter, raceSent>>

\* json.dump({'last_sent': today_tag}, ...); return False
RaceDump(r) ==
    /\ UNCHANGED outsideRace
    /\ racePc[r] = "dump"
    /\ sentinel' = Fresh(TodayTag(now))
    /\ racePc' = [racePc EXCEPT ![r] = "returned"]
    /\ raceRet' = [raceRet EXCEPT ![r] = "False"]
    /\ UNCHANGED <<now, raceAfter, raceSent>>

\* main after sent_guard returned True: print and return.
RaceStops(r) ==
    /\ UNCHANGED outsideRace
    /\ racePc[r] = "returned"
    /\ raceRet[r] = "True"
    /\ racePc' = [racePc EXCEPT ![r] = "ended"]
    /\ UNCHANGED <<now, sentinel, raceRet, raceAfter, raceSent>>

\* main after sent_guard returned False: the report is built and posted.
RaceSends(r) ==
    /\ UNCHANGED outsideRace
    /\ racePc[r] = "returned"
    /\ raceRet[r] = "False"
    /\ racePc' = [racePc EXCEPT ![r] = "sent"]
    /\ raceSent' = raceSent \cup {r}
    /\ UNCHANGED <<now, sentinel, raceRet, raceAfter>>

\* main after sent_guard returned False: the run dies or does not post.
RaceSendsNothing(r) ==
    /\ UNCHANGED outsideRace
    /\ racePc[r] = "returned"
    /\ raceRet[r] = "False"
    /\ racePc' = [racePc EXCEPT ![r] = "ended"]
    /\ UNCHANGED <<now, sentinel, raceRet, raceAfter, raceSent>>

NextRace ==
    \E r \in Runs :
      \/ RaceExists(r)
      \/ RaceLoad(r)
      \/ RaceOpenW(r)
      \/ RaceDump(r)
      \/ RaceStops(r)
      \/ RaceSends(r)
      \/ RaceSendsNothing(r)

(***************************************************************************)
(* scripts/tools/check_main_ran.py                                         *)
(***************************************************************************)

\* The defaults of CHECK_MAIN_MAX_WAIT and CHECK_MAIN_INTERVAL.
DefaultMaxWait == 90
DefaultInterval == 10

\* Polling rounds explored.
MaxRounds == 9

\* Longest time one HTTP check takes, in seconds.
MaxHttpSeconds == 1

\* The time one HTTP check takes: none, or the longest.
HttpSeconds == {0, MaxHttpSeconds}

\* An environment variable: unset, a string int() rejects, or an integer.
Unset == <<"unset", 0>>
BadInt == <<"bad", 0>>
IntVal(n) == <<"int", n>>

\* int(os.getenv(name, default)): the integer, or ValueError.
ParseInt(v, default) ==
    IF v = Unset THEN [ok |-> TRUE, val |-> default]
    ELSE IF v = BadInt THEN [ok |-> FALSE, val |-> 0]
    ELSE [ok |-> TRUE, val |-> v[2]]

MaxWaitEnvs == {Unset, BadInt, IntVal(-1), IntVal(0), IntVal(2)}
IntervalEnvs == {Unset, BadInt, IntVal(-1), IntVal(0), IntVal(1), IntVal(2)}

\* UTC hours at which a check may read the clock: around the UTC-3 midnight
\* of two days.
CheckHours == {2, 3, 26, 27}

\* iso_to_date: a '%Y-%m-%d' string gives its date, a full ISO datetime the
\* date it carries, anything else None.
IsoToDate(v) ==
    IF v[1] = "ymd" THEN [ok |-> TRUE, day |-> v[2]]
    ELSE IF v[1] = "iso" THEN [ok |-> TRUE, day |-> v[2] \div HoursPerDay]
    ELSE [ok |-> FALSE, day |-> 0]

\* Replies of the Contents API for the sentinel path.
SentinelReplies ==
    {[status |-> "raise", file |-> Missing], [status |-> "404", file |-> Missing]}
      \cup {[status |-> "200", file |-> f] :
              f \in {Garbage, NonDict, DictFile(NoKey, FALSE),
                     DictFile(OtherValue, FALSE)}
                    \cup {DictFile(<<"ymd", d>>, x) : d \in -1..1, x \in BOOLEAN}
                    \cup {DictFile(<<"iso", h>>, FALSE) : h \in CheckHours}}

\* check_sentinel(repo, headers) on reply r, the clock reading UTC hour t.
CheckSentinel(r, t) ==
    IF r.status = "raise" THEN FALSE
    ELSE IF r.status = "200"
      THEN IF r.file.kind \in {"missing", "garbage"} THEN FALSE
           ELSE IF r.file.kind = "nondict" THEN FALSE
           ELSE IF r.file.last_sent \in {NoKey} THEN FALSE
           ELSE LET today_brt == BrtDay(t)
                    sent_date == IsoToDate(r.file.last_sent)
                IN sent_date.ok /\ sent_date.day = today_brt
      ELSE FALSE

\* A workflow of the repository, as the workflows API lists it.
Workflows ==
    [path : {"oil_daily.yml", "oil_daily.yaml", "ci.yml"},
     name : {"oil daily", "oil weekly", "ci"},
     id : {11}]

WorkflowReplies ==
    {[status |-> "raise", workflows |-> <<>>],
     [status |-> "500", workflows |-> <<>>],
     [status |-> "200", workflows |-> <<>>]}
      \cup {[status |-> "200", workflows |-> <<w>>] : w \in Workflows}
      \cup {[status |-> "200",
             workflows |-> <<w, [path |-> "oil_daily.yml", name |-> "ci", id |-> 12]>>] :
              w \in Workflows}
      \cup {[status |-> "200",
             workflows |-> <<w, [path |-> "ci.yml", name |-> "oil daily", id |-> 12]>>] :
              w \in Workflows}

\* The smallest of the indices idx, 0 when there is none: the workflow a
\* "for w in workflows" loop returns at.
FirstOf(idx) ==
    IF idx = {} THEN 0 ELSE CHOOSE i \in idx : \A j \in idx : i <= j

PathMatches(w) == w.path \in {"oil_daily.yml", "oil_daily.yaml"}
NameHasOilDaily(w) == w.name = "oil daily"
NameHasOil(w) == w.name \in {"oil daily", "oil weekly"}

\* find_workflow_id(repo, headers): the id, or 0 for None.
FindWorkflowId(r) ==
    IF r.status # "200" THEN 0
    ELSE LET ws == r.workflows
             byPath == FirstOf({i \in 1..Len(ws) : PathMatches(ws[i])})
             byName == FirstOf({i \in 1..Len(ws) : NameHasOilDaily(ws[i])})
             byOil == FirstOf({i \in 1..Len(ws) : NameHasOil(ws[i])})
         IN IF byPath # 0 THEN ws[byPath].id
            ELSE IF byName # 0 THEN ws[byName].id
            ELSE IF byOil # 0 THEN ws[byOil].id
            ELSE 0

\* A workflow run: conclusion and created_at (a UTC hour, or unparsable).
WorkflowRuns ==
    [conclusion : {"success", "failure"},
     created_at : {<<"utc", h>> : h \in CheckHours} \cup {<<"bad", 0>>}]

\* A page of the runs API: an HTTP error, or up to two runs.
RunPages ==
    {[status |-> "500", runs |-> <<>>], [status |-> "200", runs |-> <<>>]}
      \cup {[status |-> "200", runs |-> <<a>>] : a \in WorkflowRuns}
      \cup {[status |-> "200",
             runs |-> <<[conclusion |-> "failure", created_at |-> <<"utc", 3>>], a>>] :
              a \in WorkflowRuns}

\* Replies to the two page requests; one that raises.  A page after an
\* empty page is empty.
SecondPages ==
    {[status |-> "200", runs |-> <<>>],
     [status |-> "500", runs |-> <<>>],
     [status |-> "200",
      runs |-> <<[conclusion |-> "success", created_at |-> <<"utc", 26>>]>>]}

RunsReplies ==
    {[raises |-> TRUE, pages |-> <<>>]}
      \cup {[raises |-> FALSE, pages |-> <<p.first, p.second>>] :
              p \in {q \in [first : RunPages, second : SecondPages] :
                       (q.first.status = "200" /\ q.first.runs = <<>>)
                         => q.second.runs = <<>>}}

\* A run counts: conclusion success, created_at parsed, created today UTC-3.
RunIsTodaysSuccess(run, t) ==
    /\ run.conclusion = "success"
    /\ run.created_at[1] = "utc"
    /\ BrtDay(run.created_at[2]) = BrtDay(t)

PageHasTodaysSuccess(pg, t) ==
    \E i \in 1..Len(pg.runs) : RunIsTodaysSuccess(pg.runs[i], t)

\* check_workflow_runs_for_today(repo, headers, wf_id) on reply r at hour t:
\* pages 1 and 2; a page that is not 200 is skipped, an empty one ends the
\* search.
CheckRuns(r, t) ==
    IF r.raises THEN FALSE
    ELSE LET p1 == r.pages[1]
             p2 == r.pages[2]
         IN IF p1.status = "200" /\ p1.runs = <<>> THEN FALSE
            ELSE IF p1.status = "200" /\ PageHasTodaysSuccess(p1, t) THEN TRUE
            ELSE p2.status = "200" /\ PageHasTodaysSuccess(p2, t)

NoEnv == [repo |-> FALSE, token |-> FALSE, max_wait |-> Unset, interval |-> Unset]

InitCheck ==
    /\ ckPc = "import"
    /\ ckEnv \in [repo : BOOLEAN, token : BOOLEAN,
                  max_wait : MaxWaitEnvs, interval : IntervalEnvs]
    /\ ckMaxWait = 0
    /\ ckInterval = 0
    /\ ckClock = 0
    /\ ckStart = 0
    /\ ckWfId = 0
    /\ ckRound = 0
    /\ ckChecks = <<>>
    /\ ckExit = -1
    /\ ckHow = "running"

\* Module level: DEFAULT_MAX_WAIT = int(os.getenv(...)), DEFAULT_INTERVAL = ...
CkImport ==
    /\ UNCHANGED outsideCheck
    /\ ckPc = "import"
    /\ ParseInt(ckEnv.max_wait, DefaultMaxWait).ok
    /\ ParseInt(ckEnv.interval, DefaultInterval).ok
    /\ ckPc' = "main"
    /\ UNCHANGED <<ckEnv, ckMaxWait, ckInterval, ckClock, ckStart, ckWfId,
                   ckRound, ckChecks, ckExit, ckHow>>

\* Module level: int() raises ValueError; the interpreter prints the
\* traceback and the process ends with status 1.
CkImportRaises ==
    /\ UNCHANGED outsideCheck
    /\ ckPc = "import"
    /\ \/ ~ParseInt(ckEnv.max_wait, DefaultMaxWait).ok
       \/ ~ParseInt(ckEnv.interval, DefaultInterval).ok
    /\ ckPc' = "exit"
    /\ ckExit' = 1
    /\ ckHow' = "import_error"
    /\ UNCHANGED <<ckEnv, ckMaxWait, ckInterval, ckClock, ckStart, ckWfId,
                   ckRound, ckChecks>>

\* main: if not repo or not token: sys.exit(0)
CkNoCredentials ==
    /\ UNCHANGED outsideCheck
    /\ ckPc = "main"
    /\ ~ckEnv.repo \/ ~ckEnv.token
    /\ ckPc' = "exit"
    /\ ckExit' = 0
    /\ ckHow' = "no_credentials"
    /\ UNCHANGED <<ckEnv, ckMaxWait, ckInterval, ckClock, ckStart, ckWfId,
                   ckRound, ckChecks>>

\* main: max_wait and interval are read (the values the import parsed).
CkConfigure ==
    /\ UNCHANGED outsideCheck
    /\ ckPc = "main"
    /\ ckEnv.repo /\ ckEnv.token
    /\ ckMaxWait' = ParseInt(ckEnv.max_wait, DefaultMaxWait).val
    /\ ckInterval' = ParseInt(ckEnv.interval, DefaultInterval).val
    /\ ckPc' = "sentinel"
    /\ UNCHANGED <<ckEnv, ckClock, ckStart, ckWfId, ckRound, ckChecks, ckExit,
                   ckHow>>

\* A check of kind k made in the current round, with what it returned and
\* whether the reply held what the check looks for.
CheckMade(k, found, holds) ==
    Append(ckChecks, [kind |-> k, round |-> ckRound, found |-> found,
                      holds |-> holds])

\* The sentinel of reply r is a JSON object whose last_sent carries the
\* date that is today in UTC-3 at hour t.
SentinelDatedToday(r, t) ==
    /\ r.status = "200"
    /\ r.file.kind = "dict"
    /\ \/ r.file.last_sent = <<"ymd", (t - 3) \div 24>>
       \/ r.file.last_sent[1] = "iso" /\ r.file.last_sent[2] \div 24 = (t - 3) \div 24

\* Reply r lists a run with conclusion success created on the date that is
\* today in UTC-3 at hour t.
SuccessCreatedToday(r, t) ==
    /\ ~r.raises
    /\ \E k \in 1..Len(r.pages) : \E i \in 1..Len(r.pages[k].runs) :
         /\ r.pages[k].status = "200"
         /\ r.pages[k].runs[i].conclusion = "success"
         /\ r.pages[k].runs[i].created_at[1] = "utc"
         /\ (r.pages[k].runs[i].created_at[2] - 3) \div 24 = (t - 3) \div 24

\* What check_sentinel can return over every reply and hour, with whether
\* the reply held a sentinel dated today.
SentinelOutcomes ==
    {[found |-> CheckSentinel(r, t), holds |-> SentinelDatedToday(r, t)] :
       r \in SentinelReplies, t \in CheckHours}

\* What check_workflow_runs_for_today can return over every reply and hour,
\* with whether the reply listed a successful run created today.
RunsOutcomes ==
    {[found |-> CheckRuns(r, t), holds |-> SuccessCreatedToday(r, t)] :
       r \in RunsReplies, t \in CheckHours}

\* What find_workflow_id can return over every reply.
WorkflowIds == {FindWorkflowId(r) : r \in WorkflowReplies}

\* if check_sentinel(repo, headers): sys.exit(0)
CkSentinelFound ==
    /\ UNCHANGED outsideCheck
    /\ ckPc = "sentinel"
    /\ \E o \in SentinelOutcomes, d \in HttpSeconds :
         /\ o.found
         /\ ckChecks' = CheckMade("sentinel", TRUE, o.holds)
         /\ ckClock' = ckClock + d
    /\ ckPc' = "exit"
    /\ ckExit' = 0
    /\ ckHow' = "sentinel"
    /\ UNCHANGED <<ckEnv, ckMaxWait, ckInterval, ckStart, ckWfId, ckRound>>

CkSentinelNotFoundThenRuns ==
    /\ UNCHANGED outsideCheck
    /\ ckPc = "sentinel"
    /\ \E o \in SentinelOutcomes, d \in HttpSeconds :
         /\ ~o.found
         /\ ckChecks' = CheckMade("sentinel", FALSE, o.holds)
         /\ ckClock' = ckClock + d
    /\ ckPc' = IF ckRound = 0 THEN "find" ELSE "runs"
    /\ UNCHANGED <<ckEnv, ckMaxWait, ckInterval, ckStart, ckWfId, ckRound,
                   ckExit, ckHow>>

\* check_sentinel returned False: the immediate round looks the workflow
\* up; a polling round checks the runs if wf_id is set and looks the
\* workflow up otherwise.
CkSentinelNotFound ==
    /\ UNCHANGED outsideCheck
    /\ ckPc = "sentinel"
    /\ \E o \in SentinelOutcomes, d \in HttpSeconds :
         /\ ~o.found
         /\ ckChecks' = CheckMade("sentinel", FALSE, o.holds)
         /\ ckClock' = ckClock + d
    /\ ckPc' = IF ckRound = 0 \/ ckWfId = 0 THEN "find" ELSE "runs"
    /\ UNCHANGED <<ckEnv, ckMaxWait, ckInterval, ckStart, ckWfId, ckRound,
                   ckExit, ckHow>>

\* wf_id = find_workflow_id(repo, headers)
CkFindWorkflow ==
    /\ UNCHANGED outsideCheck
    /\ ckPc = "find"
    /\ \E id \in WorkflowIds, d \in HttpSeconds :
         /\ ckWfId' = id
         /\ ckChecks' = CheckMade("find", id # 0, id # 0)
         /\ ckClock' = ckClock + d
         /\ ckPc' = IF ckRound = 0
                      THEN IF id # 0 THEN "runs" ELSE "start"
                      ELSE "loop"
    /\ UNCHANGED <<ckEnv, ckMaxWait, ckInterval, ckStart, ckRound, ckExit,
                   ckHow>>

\* if check_workflow_runs_for_today(repo, headers, wf_id): sys.exit(0)
CkRunsFound ==
    /\ UNCHANGED outsideCheck
    /\ ckPc = "runs"
    /\ \E o \in RunsOutcomes, d \in HttpSeconds :
         /\ o.found
         /\ ckChecks' = CheckMade("runs", TRUE, o.holds)
         /\ ckClock' = ckClock + d
    /\ ckPc' = "exit"
    /\ ckExit' = 0
    /\ ckHow' = "runs"
    /\ UNCHANGED <<ckEnv, ckMaxWait, ckInterval, ckStart, ckWfId, ckRound>>

CkRunsNotFound ==
    /\ UNCHANGED outsideCheck
    /\ ckPc = "runs"
    /\ \E o \in RunsOutcomes, d \in HttpSeconds :
         /\ ~o.found
         /\ ckChecks' = CheckMade("runs", FALSE, o.holds)
         /\ ckClock' = ckClock + d
    /\ ckPc' = IF ckRound = 0 THEN "start" ELSE "loop"
    /\ UNCHANGED <<ckEnv, ckMaxWait, ckInterval, ckStart, ckWfId, ckRound,
                   ckExit, ckHow>>

\* start = time.time()
CkStartPolling ==
    /\ UNCHANGED outsideCheck
    /\ ckPc = "start"
    /\ ckStart' = ckClock
    /\ ckPc' = "loop"
    /\ UNCHANGED <<ckEnv, ckMaxWait, ckInterval, ckClock, ckWfId, ckRound,
                   ckChecks, ckExit, ckHow>>

\* while time.time() - start < max_wait: (true)
CkLoopGoesOn ==
    /\ UNCHANGED outsideCheck
    /\ ckPc = "loop"
    /\ ckClock - ckStart < ckMaxWait
    /\ ckRound < MaxRounds
    /\ ckRound' = ckRound + 1
    /\ ckPc' = "sleep"
    /\ UNCHANGED <<ckEnv, ckMaxWait, ckInterval, ckClock, ckStart, ckWfId,
                   ckChecks, ckExit, ckHow>>

\* while time.time() - start < max_wait: (false); sys.exit(1)
CkTimeout ==
    /\ UNCHANGED outsideCheck
    /\ ckPc = "loop"
    /\ ~(ckClock - ckStart < ckMaxWait)
    /\ ckPc' = "exit"
    /\ ckExit' = 1
    /\ ckHow' = "timeout"
    /\ UNCHANGED <<ckEnv, ckMaxWait, ckInterval, ckClock, ckStart, ckWfId,
                   ckRound, ckChecks>>

CkSleepNoAdvance ==
    /\ UNCHANGED outsideCheck
    /\ ckPc = "sleep"
    /\ ckInterval >= 0
    /\ ckPc' = "sentinel"
    /\ UNCHANGED <<ckEnv, ckMaxWait, ckInterval, ckClock, ckStart, ckWfId,
                   ckRound, ckChecks, ckExit, ckHow>>

\* time.sleep(interval)
CkSleep ==
    /\ UNCHANGED outsideCheck
    /\ ckPc = "sleep"
    /\ ckInterval >= 0
    /\ ckClock' = ckClock + ckInterval
    /\ ckPc' = "sentinel"
    /\ UNCHANGED <<ckEnv, ckMaxWait, ckInterval, ckStart, ckWfId, ckRound,
                   ckChecks, ckExit, ckHow>>

\* time.sleep of a negative interval raises ValueError, which nothing
\* catches: traceback, status 1.
CkSleepRaises ==
    /\ UNCHANGED outsideCheck
    /\ ckPc = "sleep"
    /\ ckInterval < 0
    /\ ckPc' = "exit"
    /\ ckExit' = 1
    /\ ckHow' = "sleep_error"
    /\ UNCHANGED <<ckEnv, ckMaxWait, ckInterval, ckClock, ckStart, ckWfId,
                   ckRound, ckChecks>>

NextCheck ==
    \/ CkImport
    \/ CkImportRaises
    \/ CkNoCredentials
    \/ CkConfigure
    \/ CkSentinelFound
    \/ CkSentinelNotFound
    \/ CkFindWorkflow
    \/ CkRunsFound
    \/ CkRunsNotFound
    \/ CkStartPolling
    \/ CkLoopGoesOn
    \/ CkTimeout
    \/ CkSleep
    \/ CkSleepRaises


(***************************************************************************)
(* compute_metrics: energy/coal_daily.py, gas/rbob_daily.py,               *)
(* gas/jkm_lng_daily.py                                                    *)
(***************************************************************************)

\* Longest series explored.
MaxObs == 3

MetricScripts == {"coal", "rbob", "jkm"}

\* The trend threshold of each script, in percent, as a fraction <<n, d>>:
\* 0.5 (coal), 0.75 (RBOB), 1.0 (JKM).
Threshold(script) ==
    IF script = "coal" THEN <<1, 2>>
    ELSE IF script = "rbob" THEN <<3, 4>>
    ELSE <<1, 1>>

\* The "value" of an observation is a string: a decimal, given here by the
\* number of hundredths it denotes, or a text float() rejects.
Decimal(h) == <<"decimal", h>>
NotANumber == <<"text", 0>>

\* Hundredths chosen so that the percent changes between neighbours fall
\* below, on and above each threshold, with a zero and a negative value.
Hundredths == {-200, 0, 100, 101, 199, 200, 201, 202, 397, 400, 403, 404, 405}

ObsValues == {Decimal(h) : h \in Hundredths} \cup {NotANumber}

\* Series of n observations, dated by their position.
Series(n) ==
    {[i \in 1..n |-> [date |-> i, value |-> v[i]]] : v \in [1..n -> ObsValues]}

\* float(s): the number, in hundredths, or ValueError.
Float(s) ==
    IF s[1] = "decimal" THEN [ok |-> TRUE, val |-> s[2]]
    ELSE [ok |-> FALSE, val |-> 0]

Abs(n) == IF n < 0 THEN -n ELSE n

RECURSIVE Gcd(_, _)
Gcd(a, b) == IF b = 0 THEN a ELSE Gcd(b, a % b)

\* The quotient n / d (d # 0) as a fraction in lowest terms with a positive
\* denominator.  The code computes in IEEE doubles; the model is exact.
Ratio(n, d) ==
    LET g == Gcd(Abs(n), Abs(d))
        sgn == IF d < 0 THEN -1 ELSE 1
    IN <<(sgn * n) \div g, Abs(d) \div g>>

\* a > b and a < b for fractions with positive denominators.
Greater(a, b) == a[1] * b[2] > b[1] * a[2]
Less(a, b) == a[1] * b[2] < b[1] * a[2]
Negated(a) == <<-a[1], a[2]>>

TrendNotStrict(pct, T) ==
    IF ~Less(pct, T) THEN "alta"
    ELSE IF ~Greater(pct, Negated(T)) THEN "queda"
    ELSE "estabilidade"

\* if pct > T: "alta" elif pct < -T: "queda" else: "estabilidade"
Trend(pct, T) ==
    IF Greater(pct, T) THEN "alta"
    ELSE IF Less(pct, Negated(T)) THEN "queda"
    ELSE "estabilidade"

\* None, and a value that is present, where a field may be None.
Some(v) == <<v>>

NoMetrics ==
    [last_value |-> 0, last_date |-> 0, prev_value |-> NoVal,
     prev_date |-> NoVal, delta |-> 0, pct_change |-> <<0, 1>>,
     trend |-> "none"]

\* The float() calls compute_metrics makes on obs all succeed.
MetricsParse(obs) ==
    /\ Float(obs[Len(obs)].value).ok
    /\ Len(obs) >= 2 => Float(obs[Len(obs) - 1].value).ok

ComputeMetricsPrevOfPrev(obs, T) ==
    LET last == obs[Len(obs)]
        last_value == Float(last.value).val
    IN IF Len(obs) >= 2
         THEN LET prev == obs[IF Len(obs) >= 3 THEN Len(obs) - 2 ELSE Len(obs) - 1]
                  prev_value == Float(prev.value).val
                  delta == last_value - prev_value
                  pct == IF prev_value # 0 THEN Ratio(delta * 100, prev_value)
                                           ELSE <<0, 1>>
              IN [last_value |-> last_value, last_date |-> last.date,
                  prev_value |-> Some(prev_value), prev_date |-> Some(prev.date),
                  delta |-> delta, pct_change |-> pct, trend |-> Trend(pct, T)]
         ELSE [last_value |-> last_value, last_date |-> last.date,
               prev_value |-> NoVal, prev_date |-> NoVal,
               delta |-> 0, pct_change |-> <<0, 1>>, trend |-> Trend(<<0, 1>>, T)]

\* compute_metrics(obs), the trend threshold being T; values in hundredths,
\* pct_change a fraction.
ComputeMetrics(obs, T) ==
    LET last == obs[Len(obs)]
        last_value == Float(last.value).val
    IN IF Len(obs) >= 2
         THEN LET prev == obs[Len(obs) - 1]
                  prev_value == Float(prev.value).val
                  delta == last_value - Float(prev.value).val
                  pct == IF prev_value # 0 THEN Ratio(delta * 100, prev_value)
                                           ELSE <<0, 1>>
              IN [last_value |-> last_value, last_date |-> last.date,
                  prev_value |-> Some(prev_value), prev_date |-> Some(prev.date),
                  delta |-> delta, pct_change |-> pct, trend |-> Trend(pct, T)]
         ELSE [last_value |-> last_value, last_date |-> last.date,
               prev_value |-> NoVal, prev_date |-> NoVal,
               delta |-> 0, pct_change |-> <<0, 1>>, trend |-> Trend(<<0, 1>>, T)]

InitMetrics ==
    /\ mScript \in MetricScripts
    /\ \E n \in 1..MaxObs : mObs \in Series(n)
    /\ mPc = "call"
    /\ mOut = NoMetrics

\* compute_metrics(obs) returns its dict.
MetricsReturn ==
    /\ UNCHANGED outsideMetrics
    /\ mPc = "call"
    /\ MetricsParse(mObs)
    /\ mOut' = ComputeMetrics(mObs, Threshold(mScript))
    /\ mPc' = "returned"
    /\ UNCHANGED <<mScript, mObs>>

\* float() raises ValueError on the last or on the previous value.
MetricsRaise ==
    /\ UNCHANGED outsideMetrics
    /\ mPc = "call"
    /\ ~MetricsParse(mObs)
    /\ mPc' = "raised"
    /\ UNCHANGED <<mScript, mObs, mOut>>

NextMetrics ==
    \/ MetricsReturn
    \/ MetricsRaise


(***************************************************************************)
(* scripts/gas/fetch_prices.py                                             *)
(***************************************************************************)

Sources == <<"eia", "alpha", "nasdaq">>

\* An API key in the environment: absent, blanks only, or a key.
KeyStates == {"unset", "blank", "key"}

\* os.environ.get(NAME, "").strip() is a non-empty string.
KeySet(k) == k = "key"

\* A price a source reports, as a decimal string with four places (given
\* by its ten-thousandths), or a text float() rejects.
Quotes == {<<"decimal", 0>>, <<"decimal", 31234>>, <<"decimal", 31236>>,
           <<"decimal", 60000>>, <<"text", 0>>}

\* round(float(s), 3): the price in thousandths, to the nearest.
Round3(tenThousandths) ==
    LET q == tenThousandths \div 10
        r == tenThousandths % 10
    IN IF r >= 5 THEN q + 1 ELSE q

Prices(spot, front) ==
    [henry_hub_spot |-> spot, front_month |-> front, unit |-> "USD/MMBtu"]

NoPrices == [henry_hub_spot |-> -1, front_month |-> -1, unit |-> "none"]

\* A call that raised.
Raised == [ok |-> FALSE, val |-> NoPrices]

\* Replies of the EIA series endpoint: the request raises, a status
\* raise_for_status rejects, a body without series, a series without data,
\* a latest point.
EiaReplies ==
    {[kind |-> k, value |-> <<"text", 0>>] :
       k \in {"raise", "http_error", "no_series", "no_data"}}
      \cup {[kind |-> "point", value |-> v] : v \in Quotes}

\* fetch_from_eia() with the key set.
FetchFromEia(r) ==
    IF r.kind # "point" THEN Raised
    ELSE IF r.value[1] # "decimal" THEN Raised
    ELSE [ok |-> TRUE, val |-> Prices(Round3(r.value[2]), Round3(r.value[2]))]

\* Replies of AlphaVantage: as above, the latest day with or without a
\* "4. close" entry.
AlphaReplies ==
    {[kind |-> k, value |-> <<"text", 0>>] :
       k \in {"raise", "http_error", "no_series", "no_close"}}
      \cup {[kind |-> "close", value |-> v] : v \in Quotes}

\* fetch_from_alpha() with the key set.
FetchFromAlpha(r) ==
    IF r.kind \in {"raise", "http_error", "no_series"} THEN Raised
    ELSE IF r.kind = "no_close" THEN [ok |-> TRUE, val |-> Prices(0, 0)]
    ELSE IF r.value[1] # "decimal" THEN Raised
    ELSE [ok |-> TRUE, val |-> Prices(Round3(r.value[2]), Round3(r.value[2]))]

\* fetch_from_nasdaq() with the key set: always RuntimeError.
FetchFromNasdaq == Raised

\* _mock_prices(): base in [3.5, 6.0), front_month within 0.2 of it.
MockPrices ==
    {Prices(hub, hub + off) : hub \in {3500, 5999}, off \in {-200, 0, 200}}

InitPrices ==
    /\ fpEnv \in [eia : KeyStates, alpha : KeyStates, nasdaq : KeyStates,
                  fred : KeyStates]
    /\ fpPc = "eia"
    /\ fpTried = <<>>
    /\ fpResult = NoPrices
    /\ fpFrom = "none"

\* if EIA_KEY: return fetch_from_eia()
FpEiaReturns ==
    /\ UNCHANGED outsidePrices
    /\ fpPc = "eia"
    /\ KeySet(fpEnv.eia)
    /\ \E r \in EiaReplies :
         /\ FetchFromEia(r).ok
         /\ fpResult' = FetchFromEia(r).val
    /\ fpTried' = Append(fpTried, [src |-> "eia", ok |-> TRUE])
    /\ fpFrom' = "eia"
    /\ fpPc' = "returned"
    /\ UNCHANGED fpEnv

FpEiaFailsToMock ==
    /\ UNCHANGED outsidePrices
    /\ fpPc = "eia"
    /\ KeySet(fpEnv.eia)
    /\ \E r \in EiaReplies : ~FetchFromEia(r).ok
    /\ fpTried' = Append(fpTried, [src |-> "eia", ok |-> FALSE])
    /\ fpPc' = "mock"
    /\ UNCHANGED <<fpEnv, fpResult, fpFrom>>

\* fetch_from_eia() raises: except Exception, print, go on.
FpEiaFails ==
    /\ UNCHANGED outsidePrices
    /\ fpPc = "eia"
    /\ KeySet(fpEnv.eia)
    /\ \E r \in EiaReplies : ~FetchFromEia(r).ok
    /\ fpTried' = Append(fpTried, [src |-> "eia", ok |-> FALSE])
    /\ fpPc' = "alpha"
    /\ UNCHANGED <<fpEnv, fpResult, fpFrom>>

\* if EIA_KEY: (false)
FpEiaSkipped ==
    /\ UNCHANGED outsidePrices
    /\ fpPc = "eia"
    /\ ~KeySet(fpEnv.eia)
    /\ fpPc' = "alpha"
    /\ UNCHANGED <<fpEnv, fpTried, fpResult, fpFrom>>

\* if ALPHA_KEY: return fetch_from_alpha()
FpAlphaReturns ==
    /\ UNCHANGED outsidePrices
    /\ fpPc = "alpha"
    /\ KeySet(fpEnv.alpha)
    /\ \E r \in AlphaReplies :
         /\ FetchFromAlpha(r).ok
         /\ fpResult' = FetchFromAlpha(r).val
    /\ fpTried' = Append(fpTried, [src |-> "alpha", ok |-> TRUE])
    /\ fpFrom' = "alpha"
    /\ fpPc' = "returned"
    /\ UNCHANGED fpEnv

FpAlphaFails ==
    /\ UNCHANGED outsidePrices
    /\ fpPc = "alpha"
    /\ KeySet(fpEnv.alpha)
    /\ \E r \in AlphaReplies : ~FetchFromAlpha(r).ok
    /\ fpTried' = Append(fpTried, [src |-> "alpha", ok |-> FALSE])
    /\ fpPc' = "nasdaq"
    /\ UNCHANGED <<fpEnv, fpResult, fpFrom>>

FpAlphaSkipped ==
    /\ UNCHANGED outsidePrices
    /\ fpPc = "alpha"
    /\ ~KeySet(fpEnv.alpha)
    /\ fpPc' = "nasdaq"
    /\ UNCHANGED <<fpEnv, fpTried, fpResult, fpFrom>>

\* if NASDAQ_KEY: return fetch_from_nasdaq(), which raises
FpNasdaqFails ==
    /\ UNCHANGED outsidePrices
    /\ fpPc = "nasdaq"
    /\ KeySet(fpEnv.nasdaq)
    /\ ~FetchFromNasdaq.ok
    /\ fpTried' = Append(fpTried, [src |-> "nasdaq", ok |-> FALSE])
    /\ fpPc' = "fred"
    /\ UNCHANGED <<fpEnv, fpResult, fpFrom>>

FpNasdaqSkipped ==
    /\ UNCHANGED outsidePrices
    /\ fpPc = "nasdaq"
    /\ ~KeySet(fpEnv.nasdaq)
    /\ fpPc' = "fred"
    /\ UNCHANGED <<fpEnv, fpTried, fpResult, fpFrom>>

\* if FRED_KEY: pass
FpFred ==
    /\ UNCHANGED outsidePrices
    /\ fpPc = "fred"
    /\ fpPc' = "mock"
    /\ UNCHANGED <<fpEnv, fpTried, fpResult, fpFrom>>

\* return _mock_prices()
FpMock ==
    /\ UNCHANGED outsidePrices
    /\ fpPc = "mock"
    /\ fpResult' \in MockPrices
    /\ fpFrom' = "mock"
    /\ fpPc' = "returned"
    /\ UNCHANGED <<fpEnv, fpTried>>

NextPrices ==
    \/ FpEiaReturns
    \/ FpEiaFails
    \/ FpEiaSkipped
    \/ FpAlphaReturns
    \/ FpAlphaFails
    \/ FpAlphaSkipped
    \/ FpNasdaqFails
    \/ FpNasdaqSkipped
    \/ FpFred
    \/ FpMock


(***************************************************************************)
(* send_to_telegram: scripts/oil/tools.py, scripts/gas/tools.py            *)
(***************************************************************************)

\* An environment variable: absent, blanks only, or a value.
EnvStates == {"unset", "blank", "value"}

\* os.environ.get(NAME, '').strip(): "" or the value.
Stripped(e) == IF e = "value" THEN "value" ELSE ""

SelectChatWheneverPreview(env, preview) ==
    IF preview THEN [id |-> Stripped(env.chat_test), which |-> "test"]
    ELSE [id |-> Stripped(env.chat_main), which |-> "main"]

\* chat = chat_test if (preview and chat_test) else chat_main
SelectChat(env, preview) ==
    IF preview /\ Stripped(env.chat_test) # ""
      THEN [id |-> Stripped(env.chat_test), which |-> "test"]
      ELSE [id |-> Stripped(env.chat_main), which |-> "main"]

\* What requests.post and raise_for_status do: the post is accepted, the
\* API answers with an error status, or the request itself raises.
PostReplies == {"ok", "http_error", "raise"}

InitTelegram ==
    /\ tgScript \in {"oil", "gas"}
    /\ tgEnv \in [token : EnvStates, chat_main : EnvStates,
                  chat_test : EnvStates, thread : {"unset", "value"}]
    /\ tgRequests \in BOOLEAN
    /\ tgPreview \in BOOLEAN
    /\ tgPc = "call"
    /\ tgPosts = <<>>
    /\ tgPrinted = "nothing"

\* requests cannot be imported: print, return.
TgNoRequests ==
    /\ UNCHANGED outsideTelegram
    /\ tgPc = "call"
    /\ ~tgRequests
    /\ tgPrinted' = "requests not available"
    /\ tgPc' = "returned"
    /\ UNCHANGED <<tgScript, tgEnv, tgRequests, tgPreview, tgPosts>>

\* if not bot_token or not chat: print, return.
TgNotConfigured ==
    /\ UNCHANGED outsideTelegram
    /\ tgPc = "call"
    /\ tgRequests
    /\ Stripped(tgEnv.token) = "" \/ SelectChat(tgEnv, tgPreview).id = ""
    /\ tgPrinted' = "not configured"
    /\ tgPc' = "returned"
    /\ UNCHANGED <<tgScript, tgEnv, tgRequests, tgPreview, tgPosts>>

\* requests.post(url, json=payload, timeout=30); r.raise_for_status()
TgPost ==
    /\ UNCHANGED outsideTelegram
    /\ tgPc = "call"
    /\ tgRequests
    /\ Stripped(tgEnv.token) # "" /\ SelectChat(tgEnv, tgPreview).id # ""
    /\ \E reply \in PostReplies :
         /\ tgPosts' = Append(tgPosts,
                              [chat |-> SelectChat(tgEnv, tgPreview).which,
                               thread |-> tgScript = "gas" /\ tgEnv.thread = "value",
                               reply |-> reply])
         /\ tgPrinted' = IF reply = "ok" THEN "sent" ELSE "failed"
    /\ tgPc' = "returned"
    /\ UNCHANGED <<tgScript, tgEnv, tgRequests, tgPreview>>

NextTelegram ==
    \/ TgNoRequests
    \/ TgNotConfigured
    \/ TgPost


(***************************************************************************)
(* scripts/energy/coal_daily.py                                            *)
(***************************************************************************)

\* Longest list of observations in a reply of FRED.
MaxFredObs == 2

\* The "value" FRED gives an observation: a decimal, or "." for a missing
\* reading.
FredValues == {Decimal(100), Decimal(101), Decimal(200), <<"missing", 0>>}

\* Replies of the observations endpoint: the request raises, a body that is
\* not JSON, JSON without "observations", or a list of observations.
FredReplies ==
    {[kind |-> k, observations |-> <<>>] : k \in {"raise", "not_json", "no_key"}}
      \cup {[kind |-> "list", observations |-> o] :
              o \in UNION {{[i \in 1..n |-> [date |-> i, value |-> v[i]]] :
                              v \in [1..n -> FredValues]} : n \in 0..MaxFredObs}}

\* obs_list = [o for o in data["observations"]
\*             if o.get("value") not in ("", ".", None)]
ValidObs(observations) ==
    SelectSeq(observations, LAMBDA o : o.value[1] # "missing")

\* get_fred_series(): obs_list, or the exception raised.
GetFredSeries(r) ==
    IF r.kind = "raise" THEN [ok |-> FALSE, err |-> "request", obs |-> <<>>]
    ELSE IF r.kind = "not_json"
      THEN [ok |-> FALSE, err |-> "invalid_response", obs |-> <<>>]
    ELSE IF r.kind = "no_key"
      THEN [ok |-> FALSE, err |-> "no_observations", obs |-> <<>>]
    ELSE IF ValidObs(r.observations) = <<>>
      THEN [ok |-> FALSE, err |-> "no_valid_value", obs |-> <<>>]
    ELSE [ok |-> TRUE, err |-> "none", obs |-> ValidObs(r.observations)]

\* How build_structured_report_llm ends: generate returns the text of a
\* provider, returns a content that is not a string (strip() raises), or
\* raises because every provider failed; LLMClient() is None.
LlmPathOutcomes ==
    {[kind |-> "text", provider |-> p] : p \in KnownProviders}
      \cup {[kind |-> "not_text", provider |-> p] : p \in KnownProviders}
      \cup {[kind |-> "all_failed", provider |-> None]}

NoReport ==
    [html |-> <<"none", "none">>, provider |-> None, llm_used |-> FALSE,
     metrics |-> NoMetrics]

\* build_structured_report_template(metrics)
BuildTemplate(metrics) ==
    [html |-> <<"template", metrics.trend>>, provider |-> "template",
     llm_used |-> FALSE, metrics |-> metrics]

\* build_structured_report_llm(metrics), generate having returned a text
\* with client.active_provider = provider.
BuildLlm(metrics, provider) ==
    [html |-> <<"llm", provider>>,
     provider |-> IF provider = None THEN "desconhecido" ELSE provider,
     llm_used |-> TRUE, metrics |-> metrics]

\* What sendMessage does: requests.post raises, the body is not JSON, the
\* API answers ok false, ok true.
SendReplies == {"raise", "not_json", "ok_false", "ok"}

NoError == "none"

InitCoal ==
    /\ coEnv \in [llm_keys : BOOLEAN, llm_client : BOOLEAN]
    /\ coPc = "fetch"
    /\ coObs = <<>>
    /\ coReport = NoReport
    /\ coBuild = "none"
    /\ coSaved = NoReport
    /\ coPosts = <<>>
    /\ coError = NoError
    /\ coRaised = NoError

\* obs = get_fred_series()
CoFetch ==
    /\ UNCHANGED outsideCoal
    /\ coPc = "fetch"
    /\ \E r \in FredReplies :
         /\ GetFredSeries(r).ok
         /\ coObs' = GetFredSeries(r).obs
    /\ coPc' = "build"
    /\ UNCHANGED <<coEnv, coReport, coBuild, coSaved, coPosts, coError, coRaised>>

\* get_fred_series() raises; except Exception as e
CoFetchRaises ==
    /\ UNCHANGED outsideCoal
    /\ coPc = "fetch"
    /\ \E r \in FredReplies :
         /\ ~GetFredSeries(r).ok
         /\ coError' = GetFredSeries(r).err
    /\ coPc' = "notify"
    /\ UNCHANGED <<coEnv, coObs, coReport, coBuild, coSaved, coPosts, coRaised>>

\* build_structured_report: no LLM key or no LLMClient, the template.
CoBuildTemplate ==
    /\ UNCHANGED outsideCoal
    /\ coPc = "build"
    /\ ~(coEnv.llm_keys /\ coEnv.llm_client)
    /\ coReport' = BuildTemplate(ComputeMetrics(coObs, Threshold("coal")))
    /\ coBuild' = "template"
    /\ coPc' = "save"
    /\ UNCHANGED <<coEnv, coObs, coSaved, coPosts, coError, coRaised>>

\* build_structured_report: return build_structured_report_llm(metrics)
CoBuildLlm ==
    /\ UNCHANGED outsideCoal
    /\ coPc = "build"
    /\ coEnv.llm_keys /\ coEnv.llm_client
    /\ \E o \in LlmPathOutcomes :
         /\ o.kind = "text"
         /\ coReport' = BuildLlm(ComputeMetrics(coObs, Threshold("coal")),
                                 o.provider)
    /\ coBuild' = "llm"
    /\ coPc' = "save"
    /\ UNCHANGED <<coEnv, coObs, coSaved, coPosts, coError, coRaised>>

CoBuildLlmFailsRaises ==
    /\ UNCHANGED outsideCoal
    /\ coPc = "build"
    /\ coEnv.llm_keys /\ coEnv.llm_client
    /\ \E o \in LlmPathOutcomes :
         /\ o.kind # "text"
         /\ coError' = o.kind
    /\ coBuild' = "llm_failed"
    /\ coPc' = "notify"
    /\ UNCHANGED <<coEnv, coObs, coReport, coSaved, coPosts, coRaised>>

\* build_structured_report: the LLM path raises; except Exception, the
\* template.
CoBuildLlmFails ==
    /\ UNCHANGED outsideCoal
    /\ coPc = "build"
    /\ coEnv.llm_keys /\ coEnv.llm_client
    /\ \E o \in LlmPathOutcomes : o.kind # "text"
    /\ coReport' = BuildTemplate(ComputeMetrics(coObs, Threshold("coal")))
    /\ coBuild' = "llm_failed"
    /\ coPc' = "save"
    /\ UNCHANGED <<coEnv, coObs, coSaved, coPosts, coError, coRaised>>

\* with open(args.out, "w") as f: json.dump(result, f)
CoSave ==
    /\ UNCHANGED outsideCoal
    /\ coPc = "save"
    /\ coSaved' = coReport
    /\ coPc' = "send"
    /\ UNCHANGED <<coEnv, coObs, coReport, coBuild, coPosts, coError, coRaised>>

\* open(args.out, "w") raises (no such directory, no permission)
CoSaveRaises ==
    /\ UNCHANGED outsideCoal
    /\ coPc = "save"
    /\ coError' = "open"
    /\ coPc' = "notify"
    /\ UNCHANGED <<coEnv, coObs, coReport, coBuild, coSaved, coPosts, coRaised>>

\* telegram_send_message(html_text) returns (an answer of the API that is
\* not JSON or not ok is printed)
CoSend ==
    /\ UNCHANGED outsideCoal
    /\ coPc = "send"
    /\ \E reply \in SendReplies \ {"raise"} :
         coPosts' = Append(coPosts, [kind |-> "report", reply |-> reply])
    /\ coPc' = "done"
    /\ UNCHANGED <<coEnv, coObs, coReport, coBuild, coSaved, coError, coRaised>>

\* telegram_send_message(html_text): requests.post raises
CoSendRaises ==
    /\ UNCHANGED outsideCoal
    /\ coPc = "send"
    /\ coPosts' = Append(coPosts, [kind |-> "report", reply |-> "raise"])
    /\ coError' = "post"
    /\ coPc' = "notify"
    /\ UNCHANGED <<coEnv, coObs, coReport, coBuild, coSaved, coRaised>>

CoNotifyFailureReplaces ==
    /\ UNCHANGED outsideCoal
    /\ coPc = "notify"
    /\ \E reply \in SendReplies :
         /\ coPosts' = Append(coPosts, [kind |-> "error", reply |-> reply])
         /\ coRaised' = IF reply = "raise" THEN "notify_post" ELSE coError
    /\ coPc' = "raised"
    /\ UNCHANGED <<coEnv, coObs, coReport, coBuild, coSaved, coError>>

\* except Exception as e: try: telegram_send_message(error text)
\* except Exception as e2: print; then raise
CoNotify ==
    /\ UNCHANGED outsideCoal
    /\ coPc = "notify"
    /\ \E reply \in SendReplies :
         coPosts' = Append(coPosts, [kind |-> "error", reply |-> reply])
    /\ coRaised' = coError
    /\ coPc' = "raised"
    /\ UNCHANGED <<coEnv, coObs, coReport, coBuild, coSaved, coError>>

NextCoal ==
    \/ CoFetch
    \/ CoFetchRaises
    \/ CoBuildTemplate
    \/ CoBuildLlm
    \/ CoBuildLlmFails
    \/ CoSave
    \/ CoSaveRaises
    \/ CoSend
    \/ CoSendRaises
    \/ CoNotify


(***************************************************************************)
(* scripts/energy/smoke_check_inventories.py                               *)
(***************************************************************************)

\* pd.Timedelta(days=45)
CutoffDays == 45

\* A cell of the "date" column: a text to_datetime cannot parse (NaT under
\* errors="coerce"), a wall-clock hour without a UTC offset, or one with
\* an offset in hours.
BadDate == [kind |-> "invalid", wall |-> 0, offset |-> 0]
Naive(h) == [kind |-> "naive", wall |-> h, offset |-> 0]
Aware(h, off) == [kind |-> "aware", wall |-> h, offset |-> off]

\* Hours at which the script may run.
SmokeHours == {2000, 2001}

\* "date" columns whose latest valid date lies before, on and after the
\* cutoffs of SmokeHours, by wall clock or only once brought to UTC.
DateColumns ==
    {<<BadDate>>, <<BadDate, BadDate>>,
     <<Naive(919)>>, <<Naive(920)>>, <<Naive(921)>>,
     <<Naive(919), Naive(2100)>>, <<Naive(2100), Naive(919)>>,
     <<BadDate, Naive(921)>>, <<Naive(919), BadDate>>,
     <<Aware(917, -3)>>, <<Aware(922, 3), Aware(920, 3)>>}

\* A CSV: one read_csv cannot read (missing, empty, malformed), one with a
\* header and no rows, one with rows and no "date" column, one with rows
\* and a "date" column.
Csvs ==
    {[kind |-> k, dates |-> <<>>] : k \in {"unreadable", "no_rows", "no_date"}}
      \cup {[kind |-> "dated", dates |-> c] : c \in DateColumns}

\* The timestamp as tz-naive UTC hours: latest.tz_convert(None) for an
\* aware one, the wall clock as it is for a naive one.
UtcNaive(cell) ==
    IF cell.kind = "aware" THEN cell.wall - cell.offset ELSE cell.wall

WallClock(cell) == cell.wall

MaxOf(S) == CHOOSE x \in S : \A y \in S : y <= x

\* check(path): "ok", or the exception it raises.
CheckLocalTime(csv, nowHours) ==
    IF csv.kind = "unreadable" THEN "read_error"
    ELSE IF csv.kind = "no_rows" THEN "no_data"
    ELSE IF csv.kind = "no_date" THEN "ok"
    ELSE LET valid == {i \in 1..Len(csv.dates) : csv.dates[i].kind # "invalid"}
         IN IF valid = {} THEN "no_valid_date"
            ELSE LET latest == MaxOf({WallClock(csv.dates[i]) : i \in valid})
                     cutoff == nowHours - CutoffDays * HoursPerDay
                 IN IF latest < cutoff THEN "too_old" ELSE "ok"

Check(csv, nowHours) ==
    IF csv.kind = "unreadable" THEN "read_error"
    ELSE IF csv.kind = "no_rows" THEN "no_data"
    ELSE IF csv.kind = "no_date" THEN "ok"
    ELSE LET valid == {i \in 1..Len(csv.dates) : csv.dates[i].kind # "invalid"}
         IN IF valid = {} THEN "no_valid_date"
            ELSE LET latest == MaxOf({UtcNaive(csv.dates[i]) : i \in valid})
                     cutoff == nowHours - CutoffDays * HoursPerDay
                 IN IF latest < cutoff THEN "too_old" ELSE "ok"

InitSmoke ==
    /\ smFiles \in [1..3 -> Csvs]
    /\ smNow \in SmokeHours
    /\ smPc = "check"
    /\ smArg = 1
    /\ smChecked = <<>>
    /\ smExit = -1

\* check(sys.argv[i]) returns.
SmCheckPasses ==
    /\ UNCHANGED outsideSmoke
    /\ smPc = "check"
    /\ Check(smFiles[smArg], smNow) = "ok"
    /\ smChecked' = Append(smChecked, smArg)
    /\ smPc' = IF smArg = 3 THEN "ok" ELSE "check"
    /\ smArg' = IF smArg = 3 THEN smArg ELSE smArg + 1
    /\ UNCHANGED <<smFiles, smNow, smExit>>

\* check(sys.argv[i]) raises; except Exception: print, sys.exit(2)
SmCheckRaises ==
    /\ UNCHANGED outsideSmoke
    /\ smPc = "check"
    /\ Check(smFiles[smArg], smNow) # "ok"
    /\ smChecked' = Append(smChecked, smArg)
    /\ smPc' = "exit"
    /\ smExit' = 2
    /\ UNCHANGED <<smFiles, smNow, smArg>>

\* print("SMOKE OK"); sys.exit(0)
SmOk ==
    /\ UNCHANGED outsideSmoke
    /\ smPc = "ok"
    /\ smPc' = "exit"
    /\ smExit' = 0
    /\ UNCHANGED <<smFiles, smNow, smArg, smChecked>>

NextSmoke ==
    \/ SmCheckPasses
    \/ SmCheckRaises
    \/ SmOk


(***************************************************************************)
(* title_counter: scripts/oil/tools.py, scripts/gas/tools.py               *)
(***************************************************************************)

\* Calls made in all.
MaxCalls == 3

Scripts == {"oil_daily", "gas_daily"}

OtherScript(p) == CHOOSE q \in Scripts : q # p

CounterKeys == {"diario_oil", "diario_gas"}

\* The value under a key that the dict does not have.
Absent == -1

\* data = {}
EmptyDict == [k \in CounterKeys |-> Absent]

\* The counter file: missing, one json.load cannot parse (as open(path, 'w')
\* leaves it until something is written), or a JSON object of counters.
NoCounterFile == [kind |-> "missing", vals |-> EmptyDict]
TruncatedFile == [kind |-> "garbage", vals |-> EmptyDict]
CounterFile(vals) == [kind |-> "dict", vals |-> vals]

CounterFiles ==
    {NoCounterFile, TruncatedFile}
      \cup {CounterFile(v) : v \in [CounterKeys -> {Absent, 2}]}

\* data.get(key, 0)
Get(data, key) == IF data[key] = Absent THEN 0 ELSE data[key]

\* data[key] = int(data.get(key, 0)) + 1
Incremented(data, key) == [data EXCEPT ![key] = Get(data, key) + 1]

InitCounter ==
    /\ ctFile \in CounterFiles
    /\ ctPc = [p \in Scripts |-> "idle"]
    /\ ctKey = [p \in Scripts |-> "diario_oil"]
    /\ ctData = [p \in Scripts |-> EmptyDict]
    /\ ctBefore = [p \in Scripts |-> NoCounterFile]
    /\ ctOverlap = [p \in Scripts |-> FALSE]
    /\ ctCalls = 0
    /\ ctLog = <<>>

\* title_counter(counter_path, key) is called.
CtCall(p) ==
    /\ UNCHANGED outsideCounter
    /\ ctPc[p] = "idle"
    /\ ctCalls < MaxCalls
    /\ \E k \in CounterKeys : ctKey' = [ctKey EXCEPT ![p] = k]
    /\ ctPc' = [ctPc EXCEPT ![p] = "exists"]
    /\ ctBefore' = [ctBefore EXCEPT ![p] = ctFile]
    /\ ctOverlap' = IF ctPc[OtherScript(p)] # "idle"
                      THEN [q \in Scripts |-> TRUE]
                      ELSE ctOverlap
    /\ ctCalls' = ctCalls + 1
    /\ UNCHANGED <<ctFile, ctData, ctLog>>

\* os.path.exists(counter_path); data = {} when it does not.
CtExists(p) ==
    /\ UNCHANGED outsideCounter
    /\ ctPc[p] = "exists"
    /\ IF ctFile.kind = "missing"
         THEN /\ ctData' = [ctData EXCEPT ![p] = Incremented(EmptyDict, ctKey[p])]
              /\ ctPc' = [ctPc EXCEPT ![p] = "open"]
         ELSE /\ ctData' = ctData
              /\ ctPc' = [ctPc EXCEPT ![p] = "load"]
    /\ UNCHANGED <<ctFile, ctKey, ctBefore, ctOverlap, ctCalls, ctLog>>

CtLoadOwnKeyOnly(p) ==
    /\ UNCHANGED outsideCounter
    /\ ctPc[p] = "load"
    /\ ctData' = [ctData EXCEPT ![p] =
                    IF ctFile.kind = "dict"
                      THEN Incremented([EmptyDict EXCEPT ![ctKey[p]] =
                                          ctFile.vals[ctKey[p]]], ctKey[p])
                      ELSE Incremented(EmptyDict, ctKey[p])]
    /\ ctPc' = [ctPc EXCEPT ![p] = "open"]
    /\ UNCHANGED <<ctFile, ctKey, ctBefore, ctOverlap, ctCalls, ctLog>>

\* data = json.load(open(counter_path)), {} when that raises;
\* data[key] = int(data.get(key, 0)) + 1
CtLoad(p) ==
    /\ UNCHANGED outsideCounter
    /\ ctPc[p] = "load"
    /\ ctData' = [ctData EXCEPT ![p] =
                    IF ctFile.kind = "dict"
                      THEN Incremented(ctFile.vals, ctKey[p])
                      ELSE Incremented(EmptyDict, ctKey[p])]
    /\ ctPc' = [ctPc EXCEPT ![p] = "open"]
    /\ UNCHANGED <<ctFile, ctKey, ctBefore, ctOverlap, ctCalls, ctLog>>

\* open(counter_path, 'w') truncates the file.
CtOpenW(p) ==
    /\ UNCHANGED outsideCounter
    /\ ctPc[p] = "open"
    /\ ctFile' = TruncatedFile
    /\ ctPc' = [ctPc EXCEPT ![p] = "dump"]
    /\ UNCHANGED <<ctKey, ctData, ctBefore, ctOverlap, ctCalls, ctLog>>

CtDumpNothing(p) ==
    /\ UNCHANGED outsideCounter
    /\ ctPc[p] = "dump"
    /\ ctLog' = Append(ctLog, [script |-> p, key |-> ctKey[p],
                               ret |-> ctData[p][ctKey[p]],
                               before |-> ctBefore[p],
                               after |-> ctFile,
                               overlapped |-> ctOverlap[p]])
    /\ ctPc' = [ctPc EXCEPT ![p] = "idle"]
    /\ ctOverlap' = [ctOverlap EXCEPT ![p] = FALSE]
    /\ UNCHANGED <<ctFile, ctKey, ctData, ctBefore, ctCalls>>

\* json.dump(data, f); return data[key]
CtDump(p) ==
    /\ UNCHANGED outsideCounter
    /\ ctPc[p] = "dump"
    /\ ctFile' = CounterFile(ctData[p])
    /\ ctLog' = Append(ctLog, [script |-> p, key |-> ctKey[p],
                               ret |-> ctData[p][ctKey[p]],
                               before |-> ctBefore[p],
                               after |-> CounterFile(ctData[p]),
                               overlapped |-> ctOverlap[p]])
    /\ ctPc' = [ctPc EXCEPT ![p] = "idle"]
    /\ ctOverlap' = [ctOverlap EXCEPT ![p] = FALSE]
    /\ UNCHANGED <<ctKey, ctData, ctBefore, ctCalls>>

NextCounter ==
    \E p \in Scripts :
      \/ CtCall(p)
      \/ CtExists(p)
      \/ CtLoad(p)
      \/ CtOpenW(p)
      \/ CtDump(p)


(***************************************************************************)
(* scripts/energy/uranium_daily.py: fetch_uranium_from_fred                *)
(***************************************************************************)

\* Longest list of observations in a reply.
MaxUraniumObs == 3

\* obs.get("value"): None (null, or no such key), ".", "", a text float()
\* rejects, or a decimal.
NoneValue == <<"none", 0>>
DotValue == <<"dot", 0>>
EmptyValue == <<"empty", 0>>
UraniumValues ==
    {NoneValue, DotValue, EmptyValue, NotANumber, Decimal(100), Decimal(200)}

\* obs.get("date"): None, a text that is not '%Y-%m-%d', or a day.
NoneDate == <<"none", 0>>
TextDate == <<"text", 0>>
Ymd(d) == <<"ymd", d>>
UraniumDates == {NoneDate, TextDate, Ymd(1), Ymd(2)}

\* Lists of n observations.
UraniumObservations(n) ==
    [1..n -> [date : UraniumDates, value : UraniumValues]]

\* What requests.get / raise_for_status / resp.json give: an exception of
\* requests, a body that is not JSON, JSON without "observations", or JSON
\* with a list of observations.
UraniumReplyKinds == {"http_error", "not_json", "no_key", "list"}

\* datetime.strptime(date_str, "%Y-%m-%d").date(): the day, TypeError for
\* None, ValueError for a text of another form.
Strptime(date_str) ==
    IF date_str[1] = "ymd" THEN [err |-> "none", day |-> date_str[2]]
    ELSE IF date_str = NoneDate THEN [err |-> "TypeError", day |-> 0]
    ELSE [err |-> "ValueError", day |-> 0]

\* The for loop over observations (lines 55-76): rows collected so far, or
\* the exception that left the loop.
RECURSIVE CollectRows(_, _)
CollectRows(observations, rows) ==
    IF observations = <<>> THEN [err |-> "none", rows |-> rows]
    ELSE LET obs == Head(observations)
             rest == Tail(observations)
         IN IF obs.value \in {NoneValue, DotValue, EmptyValue}
              THEN CollectRows(rest, rows)
            ELSE IF ~Float(obs.value).ok THEN CollectRows(rest, rows)
            ELSE LET dt == Strptime(obs.date)
                 IN IF dt.err # "none" THEN [err |-> dt.err, rows |-> <<>>]
                    ELSE CollectRows(rest,
                           Append(rows, [date |-> dt.day,
                                         price |-> Float(obs.value).val]))

AscendingByDate(rows) ==
    \A i \in 1..(Len(rows) - 1) : rows[i].date <= rows[i + 1].date

Rearrangements(rows) ==
    {[i \in 1..Len(rows) |-> rows[p[i]]] :
       p \in {q \in [1..Len(rows) -> 1..Len(rows)] :
                \A i, j \in 1..Len(rows) : q[i] = q[j] => i = j}}

\* Variant of SortValues: the rows stay in the order FRED gave them.
SortValuesKeepsOrder(rows) == {rows}

\* df.sort_values("date").reset_index(drop=True): the rows by ascending
\* date; the default sort is not stable, so rows of one date come in any
\* order.
SortValues(rows) == {s \in Rearrangements(rows) : AscendingByDate(s)}

\* fetch_uranium_from_fred up to the sort: the rows, or the exception.
FetchUraniumFromFred(r) ==
    IF r.kind = "http_error" THEN [err |-> "RequestException", rows |-> <<>>]
    ELSE IF r.kind = "not_json" THEN [err |-> "JSONDecodeError", rows |-> <<>>]
    ELSE IF r.kind = "no_key" \/ r.observations = <<>>
      THEN [err |-> "RuntimeError", rows |-> <<>>]
    ELSE LET c == CollectRows(r.observations, <<>>)
         IN IF c.err # "none" THEN c
            ELSE IF c.rows = <<>> THEN [err |-> "RuntimeError", rows |-> <<>>]
            ELSE c

InitUranium ==
    /\ \E k \in UraniumReplyKinds :
         IF k = "list"
           THEN \E n \in 0..MaxUraniumObs :
                  \E o \in UraniumObservations(n) :
                    urReply = [kind |-> k, observations |-> o]
           ELSE urReply = [kind |-> k, observations |-> <<>>]
    /\ urPc = "call"
    /\ urRows = <<>>
    /\ urError = "none"

\* requests.get or raise_for_status raises, or resp.json() does.
UrRequestFails ==
    /\ UNCHANGED outsideUranium
    /\ urPc = "call"
    /\ urReply.kind \in {"http_error", "not_json"}
    /\ urPc' = "raised"
    /\ urError' = FetchUraniumFromFred(urReply).err
    /\ UNCHANGED <<urReply, urRows>>

\* if not observations: raise RuntimeError (line 53).
UrNoObservations ==
    /\ UNCHANGED outsideUranium
    /\ urPc = "call"
    /\ urReply.kind \in {"no_key", "list"}
    /\ urReply.observations = <<>>
    /\ urPc' = "raised"
    /\ urError' = FetchUraniumFromFred(urReply).err
    /\ UNCHANGED <<urReply, urRows>>

\* strptime raises inside the loop (line 69).
UrDateRaises ==
    /\ UNCHANGED outsideUranium
    /\ urPc = "call"
    /\ urReply.kind = "list"
    /\ urReply.observations # <<>>
    /\ CollectRows(urReply.observations, <<>>).err # "none"
    /\ urPc' = "raised"
    /\ urError' = FetchUraniumFromFred(urReply).err
    /\ UNCHANGED <<urReply, urRows>>

\* if not rows: raise RuntimeError (line 79).
UrNoRows ==
    /\ UNCHANGED outsideUranium
    /\ urPc = "call"
    /\ urReply.kind = "list"
    /\ urReply.observations # <<>>
    /\ CollectRows(urReply.observations, <<>>) = [err |-> "none", rows |-> <<>>]
    /\ urPc' = "raised"
    /\ urError' = FetchUraniumFromFred(urReply).err
    /\ UNCHANGED <<urReply, urRows>>

\* return df (lines 81-83).
UrReturn ==
    /\ UNCHANGED outsideUranium
    /\ urPc = "call"
    /\ FetchUraniumFromFred(urReply).err = "none"
    /\ urRows' \in SortValues(FetchUraniumFromFred(urReply).rows)
    /\ urPc' = "returned"
    /\ UNCHANGED <<urReply, urError>>

NextUranium ==
    \/ UrRequestFails
    \/ UrNoObservations
    \/ UrDateRaises
    \/ UrNoRows
    \/ UrReturn


(***************************************************************************)
(* scripts/gas/rbob_daily.py, scripts/gas/jkm_lng_daily.py: main           *)
(***************************************************************************)

GasScripts == {"rbob", "jkm"}

\* os.path.dirname(args.out): empty for a bare file name.
OutDirnames == {"", "dir"}

\* build_report(metrics) with the footer main adds, as the dict main dumps.
BuildReport(metrics) ==
    [html |-> <<"template", metrics.trend>>, provider |-> "template",
     llm_used |-> FALSE, metrics |-> metrics]

InitGas ==
    /\ gdScript \in GasScripts
    /\ gdOut \in OutDirnames
    /\ gdPc = "fetch"
    /\ gdObs = <<>>
    /\ gdResult = NoReport
    /\ gdSaved = NoReport
    /\ gdPosts = <<>>
    /\ gdError = NoError

\* obs = get_fred_series()
GdFetch ==
    /\ UNCHANGED outsideGas
    /\ gdPc = "fetch"
    /\ \E r \in FredReplies :
         /\ GetFredSeries(r).ok
         /\ gdObs' = GetFredSeries(r).obs
    /\ gdPc' = "build"
    /\ UNCHANGED <<gdScript, gdOut, gdResult, gdSaved, gdPosts, gdError>>

\* get_fred_series() raises
GdFetchRaises ==
    /\ UNCHANGED outsideGas
    /\ gdPc = "fetch"
    /\ \E r \in FredReplies :
         /\ ~GetFredSeries(r).ok
         /\ gdError' = GetFredSeries(r).err
    /\ gdPc' = "except"
    /\ UNCHANGED <<gdScript, gdOut, gdObs, gdResult, gdSaved, gdPosts>>

\* metrics = compute_metrics(obs); html_text = build_report(metrics);
\* result = {...}
GdBuild ==
    /\ UNCHANGED outsideGas
    /\ gdPc = "build"
    /\ gdResult' = BuildReport(ComputeMetrics(gdObs, Threshold(gdScript)))
    /\ gdPc' = "makedirs"
    /\ UNCHANGED <<gdScript, gdOut, gdObs, gdSaved, gdPosts, gdError>>

\* os.makedirs(os.path.dirname(out_path), exist_ok=True)
GdMakedirs ==
    /\ UNCHANGED outsideGas
    /\ gdPc = "makedirs"
    /\ gdOut # ""
    /\ gdPc' = "save"
    /\ UNCHANGED <<gdScript, gdOut, gdObs, gdResult, gdSaved, gdPosts, gdError>>

\* os.makedirs raises: FileNotFoundError for the empty dirname of a bare
\* file name, or the directory cannot be made.
GdMakedirsRaises ==
    /\ UNCHANGED outsideGas
    /\ gdPc = "makedirs"
    /\ gdError' = "makedirs"
    /\ gdPc' = "except"
    /\ UNCHANGED <<gdScript, gdOut, gdObs, gdResult, gdSaved, gdPosts>>

\* with open(out_path, "w") as f: json.dump(result, f)
GdSave ==
    /\ UNCHANGED outsideGas
    /\ gdPc = "save"
    /\ gdSaved' = gdResult
    /\ gdPc' = "send"
    /\ UNCHANGED <<gdScript, gdOut, gdObs, gdResult, gdPosts, gdError>>

\* Variant of GdSaveRaises: the failure is passed over and the run goes on
\* to the post.
GdSaveRaisesThenSends ==
    /\ UNCHANGED outsideGas
    /\ gdPc = "save"
    /\ gdError' = "open"
    /\ gdPc' = "send"
    /\ UNCHANGED <<gdScript, gdOut, gdObs, gdResult, gdSaved, gdPosts>>

\* open(out_path, "w") raises
GdSaveRaises ==
    /\ UNCHANGED outsideGas
    /\ gdPc = "save"
    /\ gdError' = "open"
    /\ gdPc' = "except"
    /\ UNCHANGED <<gdScript, gdOut, gdObs, gdResult, gdSaved, gdPosts>>

\* telegram_send_message(html_text) returns: a body that is not JSON or an
\* answer that is not ok is printed.
GdSend ==
    /\ UNCHANGED outsideGas
    /\ gdPc = "send"
    /\ \E reply \in SendReplies \ {"raise"} :
         gdPosts' = Append(gdPosts, [kind |-> "report", reply |-> reply])
    /\ gdPc' = "done"
    /\ UNCHANGED <<gdScript, gdOut, gdObs, gdResult, gdSaved, gdError>>

\* telegram_send_message(html_text): requests.post raises
GdSendRaises ==
    /\ UNCHANGED outsideGas
    /\ gdPc = "send"
    /\ gdPosts' = Append(gdPosts, [kind |-> "report", reply |-> "raise"])
    /\ gdError' = "post"
    /\ gdPc' = "except"
    /\ UNCHANGED <<gdScript, gdOut, gdObs, gdResult, gdSaved>>

\* except Exception as e: print(...); raise
GdExcept ==
    /\ UNCHANGED outsideGas
    /\ gdPc = "except"
    /\ gdPc' = "raised"
    /\ UNCHANGED <<gdScript, gdOut, gdObs, gdResult, gdSaved, gdPosts, gdError>>

NextGas ==
    \/ GdFetch
    \/ GdFetchRaises
    \/ GdBuild
    \/ GdMakedirs
    \/ GdMakedirsRaises
    \/ GdSave
    \/ GdSaveRaises
    \/ GdSend
    \/ GdSendRaises
    \/ GdExcept

(***************************************************************************)
(* Specifications                                                          *)
(***************************************************************************)

vars == <<llmVars, guardVars, raceVars, checkVars, metricVars, priceVars,
          tgVars, coalVars, smokeVars, counterVars, uraniumVars, gasVars>>

\* A component that is not running keeps its initial state.
ParkedLLM ==
    /\ order = <<"piapi">>
    /\ apiKeys = {}
    /\ pos = 1
    /\ active_provider = None
    /\ last_error = NoVal
    /\ calls = <<>>
    /\ outcome = "running"
    /\ text = NoVal
    /\ reported = NoVal
    /\ caller_out = NoOut

ParkedGuard ==
    /\ now = 0
    /\ sentinel = Missing
    /\ runPc = "idle"
    /\ args = NoArgs
    /\ counter = 0
    /\ runs = <<>>
    /\ lastEnd = "none"
    /\ lastGuard = NoGuardCall
    /\ posted = {}

ParkedRun ==
    /\ runPc = "idle"
    /\ args = NoArgs
    /\ counter = 0
    /\ runs = <<>>
    /\ lastEnd = "none"
    /\ lastGuard = NoGuardCall
    /\ posted = {}

ParkedRace ==
    /\ racePc = [r \in Runs |-> "exists"]
    /\ raceRet = [r \in Runs |-> "none"]
    /\ raceAfter = [r \in Runs |-> FALSE]
    /\ raceSent = {}

ParkedCheck ==
    /\ ckPc = "import"
    /\ ckEnv = NoEnv
    /\ ckMaxWait = 0
    /\ ckInterval = 0
    /\ ckClock = 0
    /\ ckStart = 0
    /\ ckWfId = 0
    /\ ckRound = 0
    /\ ckChecks = <<>>
    /\ ckExit = -1
    /\ ckHow = "running"

ParkedMetrics ==
    /\ mScript = "coal"
    /\ mObs = <<[date |-> 1, value |-> Decimal(100)]>>
    /\ mPc = "call"
    /\ mOut = NoMetrics


ParkedPrices ==
    /\ fpEnv = [eia |-> "unset", alpha |-> "unset", nasdaq |-> "unset",
                fred |-> "unset"]
    /\ fpPc = "eia"
    /\ fpTried = <<>>
    /\ fpResult = NoPrices
    /\ fpFrom = "none"


ParkedTelegram ==
    /\ tgScript = "oil"
    /\ tgEnv = [token |-> "unset", chat_main |-> "unset", chat_test |-> "unset",
                thread |-> "unset"]
    /\ tgRequests = TRUE
    /\ tgPreview = FALSE
    /\ tgPc = "call"
    /\ tgPosts = <<>>
    /\ tgPrinted = "nothing"


ParkedCoal ==
    /\ coEnv = [llm_keys |-> FALSE, llm_client |-> FALSE]
    /\ coPc = "idle"
    /\ coObs = <<>>
    /\ coReport = NoReport
    /\ coBuild = "none"
    /\ coSaved = NoReport
    /\ coPosts = <<>>
    /\ coError = NoError
    /\ coRaised = NoError


ParkedSmoke ==
    /\ smFiles = [i \in 1..3 |-> [kind |-> "no_date", dates |-> <<>>]]
    /\ smNow = 2000
    /\ smPc = "check"
    /\ smArg = 1
    /\ smChecked = <<>>
    /\ smExit = -1


ParkedCounter ==
    /\ ctFile = NoCounterFile
    /\ ctPc = [p \in Scripts |-> "idle"]
    /\ ctKey = [p \in Scripts |-> "diario_oil"]
    /\ ctData = [p \in Scripts |-> EmptyDict]
    /\ ctBefore = [p \in Scripts |-> NoCounterFile]
    /\ ctOverlap = [p \in Scripts |-> FALSE]
    /\ ctCalls = 0
    /\ ctLog = <<>>


ParkedUranium ==
    /\ urReply = [kind |-> "no_key", observations |-> <<>>]
    /\ urPc = "idle"
    /\ urRows = <<>>
    /\ urError = "none"


ParkedGas ==
    /\ gdScript = "rbob"
    /\ gdOut = ""
    /\ gdPc = "idle"
    /\ gdObs = <<>>
    /\ gdResult = NoReport
    /\ gdSaved = NoReport
    /\ gdPosts = <<>>
    /\ gdError = NoError

\* LLMClient.generate and its caller, over every order and key set.
StartLLM ==
    /\ InitLLM
    /\ ParkedGuard
    /\ ParkedRace
    /\ ParkedCheck
    /\ ParkedMetrics
    /\ ParkedPrices
    /\ ParkedTelegram
    /\ ParkedCoal
    /\ ParkedSmoke
    /\ ParkedCounter
    /\ ParkedUranium
    /\ ParkedGas
SpecLLM == StartLLM /\ [][NextLLM]_vars

\* Non-overlapping runs of one daily script over a few days.
StartGuard ==
    /\ InitGuard
    /\ ParkedLLM
    /\ ParkedRace
    /\ ParkedCheck
    /\ ParkedMetrics
    /\ ParkedPrices
    /\ ParkedTelegram
    /\ ParkedCoal
    /\ ParkedSmoke
    /\ ParkedCounter
    /\ ParkedUranium
    /\ ParkedGas
SpecGuard == StartGuard /\ [][NextGuard]_vars

\* Two runs of one daily script inside sent_guard at the same time.
StartRace ==
    /\ InitRace
    /\ ParkedLLM
    /\ ParkedRun
    /\ ParkedCheck
    /\ ParkedMetrics
    /\ ParkedPrices
    /\ ParkedTelegram
    /\ ParkedCoal
    /\ ParkedSmoke
    /\ ParkedCounter
    /\ ParkedUranium
    /\ ParkedGas
SpecRace == StartRace /\ [][NextRace]_vars

\* One run of check_main_ran, over every environment and every reply.
StartCheck ==
    /\ InitCheck
    /\ ParkedLLM
    /\ ParkedGuard
    /\ ParkedRace
    /\ ParkedMetrics
    /\ ParkedPrices
    /\ ParkedTelegram
    /\ ParkedCoal
    /\ ParkedSmoke
    /\ ParkedCounter
    /\ ParkedUranium
    /\ ParkedGas
SpecCheck == StartCheck /\ [][NextCheck]_vars

\* The same run as a sequential process: a statement that can execute does.
SpecCheckLive == StartCheck /\ [][NextCheck]_vars /\ WF_vars(NextCheck)


\* One call of compute_metrics, over every script and every series.
StartMetrics ==
    /\ InitMetrics
    /\ ParkedLLM
    /\ ParkedGuard
    /\ ParkedRace
    /\ ParkedCheck
    /\ ParkedPrices
    /\ ParkedTelegram
    /\ ParkedCoal
    /\ ParkedSmoke
    /\ ParkedCounter
    /\ ParkedUranium
    /\ ParkedGas
SpecMetrics == StartMetrics /\ [][NextMetrics]_vars


\* One call of gas fetch_prices, over every environment and every reply.
StartPrices ==
    /\ InitPrices
    /\ ParkedLLM
    /\ ParkedGuard
    /\ ParkedRace
    /\ ParkedCheck
    /\ ParkedMetrics
    /\ ParkedTelegram
    /\ ParkedCoal
    /\ ParkedSmoke
    /\ ParkedCounter
    /\ ParkedUranium
    /\ ParkedGas
SpecPrices == StartPrices /\ [][NextPrices]_vars


\* One call of send_to_telegram, over every environment and every reply.
StartTelegram ==
    /\ InitTelegram
    /\ ParkedLLM
    /\ ParkedGuard
    /\ ParkedRace
    /\ ParkedCheck
    /\ ParkedMetrics
    /\ ParkedPrices
    /\ ParkedCoal
    /\ ParkedSmoke
    /\ ParkedCounter
    /\ ParkedUranium
    /\ ParkedGas
SpecTelegram == StartTelegram /\ [][NextTelegram]_vars


\* One run of coal_daily main, over every environment and every reply.
StartCoal ==
    /\ InitCoal
    /\ ParkedLLM
    /\ ParkedGuard
    /\ ParkedRace
    /\ ParkedCheck
    /\ ParkedMetrics
    /\ ParkedPrices
    /\ ParkedTelegram
    /\ ParkedSmoke
    /\ ParkedCounter
    /\ ParkedUranium
    /\ ParkedGas
SpecCoal == StartCoal /\ [][NextCoal]_vars


\* One run of smoke_check_inventories, over every triple of CSVs.
StartSmoke ==
    /\ InitSmoke
    /\ ParkedLLM
    /\ ParkedGuard
    /\ ParkedRace
    /\ ParkedCheck
    /\ ParkedMetrics
    /\ ParkedPrices
    /\ ParkedTelegram
    /\ ParkedCoal
    /\ ParkedCounter
    /\ ParkedUranium
    /\ ParkedGas
SpecSmoke == StartSmoke /\ [][NextSmoke]_vars


\* Calls of title_counter by two scripts on one file, overlapping or not.
StartCounter ==
    /\ InitCounter
    /\ ParkedLLM
    /\ ParkedGuard
    /\ ParkedRace
    /\ ParkedCheck
    /\ ParkedMetrics
    /\ ParkedPrices
    /\ ParkedTelegram
    /\ ParkedCoal
    /\ ParkedSmoke
    /\ ParkedUranium
    /\ ParkedGas
SpecCounter == StartCounter /\ [][NextCounter]_vars


\* One call of fetch_uranium_from_fred, over every reply.
StartUranium ==
    /\ InitUranium
    /\ ParkedLLM
    /\ ParkedGuard
    /\ ParkedRace
    /\ ParkedCheck
    /\ ParkedMetrics
    /\ ParkedPrices
    /\ ParkedTelegram
    /\ ParkedCoal
    /\ ParkedSmoke
    /\ ParkedCounter
    /\ ParkedGas
SpecUranium == StartUranium /\ [][NextUranium]_vars


\* One run of rbob_daily or jkm_lng_daily.
StartGas ==
    /\ InitGas
    /\ ParkedLLM
    /\ ParkedGuard
    /\ ParkedRace
    /\ ParkedCheck
    /\ ParkedMetrics
    /\ ParkedPrices
    /\ ParkedTelegram
    /\ ParkedCoal
    /\ ParkedSmoke
    /\ ParkedCounter
    /\ ParkedUranium
SpecGas == StartGas /\ [][NextGas]_vars

\* One run of one of the three template pipelines: coal_daily, rbob_daily
\* or jkm_lng_daily.
StartPipelines == StartCoal \/ StartGas
NextPipelines == NextCoal \/ NextGas
SpecPipelines == StartPipelines /\ [][NextPipelines]_vars

(***************************************************************************)
(* Properties of sent_guard and of the daily runs                          *)
(***************************************************************************)

\* Run i reached the guard without --force.
Guarded(i) == ~runs[i].force

\* C4: sent_guard returns True, leaving the sentinel as it was, exactly
\* when the file exists, parses as a JSON object and its last_sent is
\* today's date in UTC-3; in every other case it leaves {last_sent: today}
\* and returns False.
C4_SentGuardContract ==
    lastGuard.called =>
      LET b == lastGuard.before
          today == <<"ymd", (lastGuard.at - 3) \div 24>>
          hit == b.kind = "dict" /\ b.last_sent = today
      IN /\ lastGuard.ret <=> hit
         /\ hit => lastGuard.after = b
         /\ ~hit => lastGuard.after =
                      [kind |-> "dict", last_sent |-> today, extra |-> FALSE]
         /\ sentinel = lastGuard.after

\* sent_guard has returned False on a damaged file and, later, True on a
\* sentinel of today at an hour where the UTC date is already tomorrow's.
C4_Witness ==
    /\ lastGuard.called
    /\ lastGuard.ret
    /\ lastGuard.at \div 24 # (lastGuard.at - 3) \div 24
    /\ \E i \in 1..Len(runs) : Guarded(i) /\ runs[i].passed

\* C5: among runs without --force on one sentinel, a run that is not the
\* first of its UTC-3 day stops at the guard, so at most one per day goes
\* on, and the first run of a later day goes on again.
C5_OneRunPerDay ==
    /\ \A i, j \in 1..Len(runs) :
         (i < j /\ Guarded(i) /\ Guarded(j) /\ runs[i].day = runs[j].day)
           => ~runs[j].passed
    /\ \A j \in 1..Len(runs) :
         ( /\ Guarded(j)
           /\ \E i \in 1..(j - 1) : Guarded(i) /\ runs[i].day < runs[j].day
           /\ \A i \in 1..(j - 1) : Guarded(i) => runs[i].day # runs[j].day )
           => runs[j].passed

\* One day's first run went on, its second stopped, the next day's went on.
C5_Witness ==
    /\ Len(runs) >= 3
    /\ \A i \in 1..3 : Guarded(i)
    /\ runs[1].passed /\ ~runs[2].passed /\ runs[3].passed
    /\ runs[1].day = runs[2].day
    /\ runs[2].day < runs[3].day

\* C6: if the sentinel's last_sent is date D, a report was posted to the
\* chat on date D.  Stated for the states between runs, where the claim
\* (made for every state) must hold in particular.
C6_SentinelMeansSent ==
    (runPc = "idle" /\ sentinel.kind = "dict" /\ sentinel.last_sent[1] = "ymd")
      => sentinel.last_sent[2] \in posted

\* C7: sent_guard takes no lock.  A run that enters it after the other
\* run has left it is told True, so two reports on one day come only from
\* overlapping calls; the overlap in which both calls return False and
\* both runs send is reachable (C7_Witness).
C7_OnlyOverlapSendsTwice ==
    /\ \A r \in Runs :
         (raceAfter[r] /\ racePc[r] \in LeftGuard) => raceRet[r] = "True"
    /\ raceSent = Runs => \A r \in Runs : raceRet[r] = "False" /\ ~raceAfter[r]
    /\ \A r \in raceSent : raceRet[r] = "False"

\* Both calls returned False on the same day and both runs sent a report.
C7_Witness ==
    /\ \A r \in Runs : raceRet[r] = "False" /\ racePc[r] = "sent"
    /\ raceSent = Runs
    /\ sentinel = Fresh(TodayTag(now))

(***************************************************************************)
(* Properties of check_main_ran                                            *)
(***************************************************************************)

HasCredentials == ckEnv.repo /\ ckEnv.token

\* Check k looked for a sending (a sentinel or a runs check).
LooksForSending(k) == ckChecks[k].kind \in {"sentinel", "runs"}

\* What the docstring promises of a run with credentials: a check finds
\* exactly what it looks for, status 0 follows the first check that finds
\* it, and status 1 comes only once max_wait has passed since polling
\* began, no check having found anything.
ExitContract ==
    /\ \A k \in 1..Len(ckChecks) :
         LooksForSending(k) =>
           /\ ckChecks[k].found <=> ckChecks[k].holds
           /\ ckChecks[k].found => (k = Len(ckChecks) /\ ckExit = 0)
    /\ ckExit = 0 =>
         /\ ckChecks # <<>>
         /\ LooksForSending(Len(ckChecks))
         /\ ckChecks[Len(ckChecks)].found
    /\ ckExit = 1 =>
         /\ ckChecks # <<>>
         /\ \A k \in 1..Len(ckChecks) : LooksForSending(k) => ~ckChecks[k].found
         /\ ckClock - ckStart >= ckMaxWait

\* C8: with GITHUB_REPOSITORY and GITHUB_TOKEN set, check_main_ran exits 0
\* as soon as a check finds the sentinel dated today or a successful run
\* created today, and exits 1 only after max_wait has expired with no
\* check having found either.
C8_ExitZeroOnFindExitOneAfterWait == HasCredentials => ExitContract

\* C9: with GITHUB_REPOSITORY or GITHUB_TOKEN missing, check_main_ran ends
\* with status 0 and makes no sentinel check, workflow lookup or polling.
C9_NoCredentialsExitZero ==
    ~HasCredentials =>
      /\ ckExit \in {-1, 0}
      /\ ckChecks = <<>>
      /\ ckRound = 0

\* Check k is the first check of its round.
FirstOfRound(k) == k = 1 \/ ckChecks[k - 1].round < ckChecks[k].round

\* C10: every round checks the sentinel first and only then the runs, the
\* runs are checked only once a lookup has given a workflow id, and a
\* polling round begins only after the immediate round found nothing.
C10_RoundOrder ==
    /\ \A k \in 1..Len(ckChecks) :
         /\ ckChecks[k].kind = "sentinel" <=> FirstOfRound(k)
         /\ k > 1 => ckChecks[k - 1].round <= ckChecks[k].round
         /\ ckChecks[k].kind = "runs" =>
              /\ \E j \in 1..(k - 1) :
                   ckChecks[j].kind = "find" /\ ckChecks[j].found
              /\ ckWfId # 0
         /\ ckChecks[k].round >= 1 =>
              /\ ckChecks[1].round = 0
              /\ \A j \in 1..Len(ckChecks) :
                   (ckChecks[j].round = 0 /\ LooksForSending(j))
                     => ~ckChecks[j].found
              /\ \E j \in 1..(k - 1) :
                   ckChecks[j].round = 0 /\ ckChecks[j].kind = "find"
    /\ ckRound >= 1 => (ckChecks # <<>> /\ ~ckChecks[1].found)

\* The workflow appeared during polling: the first lookup found none, a
\* polling round found it, and a later polling round checked its runs
\* after its sentinel check.
C10_Witness ==
    /\ Len(ckChecks) >= 6
    /\ ckChecks[2].kind = "find" /\ ~ckChecks[2].found
    /\ ckChecks[Len(ckChecks)].kind = "runs"
    /\ ckChecks[Len(ckChecks)].round >= 2
    /\ ckChecks[Len(ckChecks) - 1].kind = "sentinel"

\* The exit contract of C8 holds in the runs whose CHECK_MAIN_MAX_WAIT and
\* CHECK_MAIN_INTERVAL int() accepts and whose interval is not negative.
ExitContractUnderValidConfig ==
    ( /\ HasCredentials
      /\ ckEnv.max_wait # BadInt
      /\ ckEnv.interval \notin {BadInt, IntVal(-1)} ) => ExitContract

\* The no-credentials exit of C9 holds in the runs whose CHECK_MAIN_*
\* values int() accepts.
NoCredentialsUnderValidConfig ==
    (ckEnv.max_wait # BadInt /\ ckEnv.interval # BadInt)
      => C9_NoCredentialsExitZero

(***************************************************************************)
(* Properties of LLMClient.generate                                        *)
(***************************************************************************)

\* The provider at position j of the order was called and raised.
FailedAt(j) == \E k \in 1..Len(calls) : calls[k].at = j /\ ~calls[k].ok

\* Position j was passed without producing a text: its provider raised, or
\* the loop went past a name generate does not dispatch on, calling nothing.
PassedAt(j) ==
    \/ FailedAt(j)
    \/ /\ order[j] \notin KnownProviders
       /\ j < pos
       /\ \A k \in 1..Len(calls) : calls[k].at # j

\* Calls follow the order: each call is of the provider at its position,
\* positions strictly increase, and a returned text is that of the last
\* call, the only one that did not raise.
CallsFollowOrder ==
    /\ \A k \in 1..Len(calls) :
         /\ calls[k].at \in 1..Len(order)
         /\ calls[k].name = order[calls[k].at]
    /\ \A k, l \in 1..Len(calls) : k < l => calls[k].at < calls[l].at
    /\ outcome = "returned" =>
         /\ calls # <<>>
         /\ calls[Len(calls)].ok
         /\ text = calls[Len(calls)].val
         /\ \A k \in 1..(Len(calls) - 1) : ~calls[k].ok
    /\ outcome # "returned" => \A k \in 1..Len(calls) : ~calls[k].ok

\* C1 as stated: providers are called strictly in the order, a provider is
\* called only after every provider at an earlier position has raised, and
\* the first text is returned without a later call.
C1_CalledOnlyAfterEarlierRaised ==
    /\ CallsFollowOrder
    /\ \A k \in 1..Len(calls) : \A j \in 1..(calls[k].at - 1) : FailedAt(j)

\* C1 amended: a provider is called only after every earlier position has
\* either raised or been skipped because its name is none of the four
\* dispatched names; such a name is never called.
C1_CalledOnlyAfterEarlierPassed ==
    /\ CallsFollowOrder
    /\ \A k \in 1..Len(calls) : calls[k].name \in KnownProviders
    /\ \A k \in 1..Len(calls) : \A j \in 1..(calls[k].at - 1) : PassedAt(j)

\* A text returned by the second provider called, after a skipped name.
C1_Witness ==
    /\ outcome = "returned"
    /\ Len(calls) >= 2
    /\ \E j \in 1..(calls[Len(calls)].at - 1) : order[j] \notin KnownProviders

\* C2: when generate has returned a text, active_provider is the name of
\* the provider whose call produced it, and the dict the caller builds
\* reports that provider with that text.
C2_ActiveProviderServed ==
    /\ outcome = "returned" =>
         /\ calls # <<>>
         /\ calls[Len(calls)].ok
         /\ text = calls[Len(calls)].val
         /\ active_provider = calls[Len(calls)].name
         /\ active_provider = text[2]
    /\ caller_out.built =>
         /\ caller_out.texto = calls[Len(calls)].val
         /\ caller_out.provider = calls[Len(calls)].name

\* The caller reports a provider reached by fallback.
C2_Witness ==
    /\ caller_out.built
    /\ Len(calls) >= 2
    /\ calls[1].name # caller_out.provider

\* C3 as stated: generate raises only when every provider of the order has
\* been tried and has failed, never with a position left, never when all
\* have failed does it return, and the error is the last provider's.
C3_RaisesIffAllTriedAndFailed ==
    /\ outcome = "raised" =>
         /\ pos > Len(order)
         /\ \A j \in 1..Len(order) : FailedAt(j)
         /\ calls # <<>>
         /\ reported = calls[Len(calls)].val
    /\ (\A j \in 1..Len(order) : FailedAt(j)) => outcome # "returned"

\* C3 amended: generate raises only when every position has been passed
\* (each dispatched provider tried and failed, each other name skipped);
\* the error reported is that of the last provider called, or None when
\* no provider was called; once every position is passed it never returns.
C3_RaisesIffAllPassed ==
    /\ outcome = "raised" =>
         /\ pos > Len(order)
         /\ \A j \in 1..Len(order) : PassedAt(j)
         /\ \A k \in 1..Len(calls) : ~calls[k].ok
         /\ reported = IF calls = <<>> THEN NoVal ELSE calls[Len(calls)].val
    /\ (\A j \in 1..Len(order) : PassedAt(j)) =>
         /\ outcome # "returned"
         /\ text = NoVal
         /\ pos > Len(order)

\* generate raised after two failed calls and a skipped last name.
C3_Witness ==
    /\ outcome = "raised"
    /\ Len(calls) >= 2
    /\ order[Len(order)] \notin KnownProviders

(***************************************************************************)
(* Termination of check_main_ran                                           *)
(***************************************************************************)

\* The polling interval the run uses is positive.
IntervalPositive == ckInterval > 0

\* With a positive interval, every polling round begins by advancing the
\* clock by the interval: after the sleep of round n at least n intervals
\* have passed since start, so the loop condition fails by round
\* ceil(max_wait / interval).
RoundsAdvanceClock ==
    (IntervalPositive /\ ckRound >= 1) =>
      /\ ckPc \in {"sentinel", "find", "runs", "loop"} =>
           ckClock - ckStart >= ckRound * ckInterval
      /\ ckPc = "sleep" => ckClock - ckStart >= (ckRound - 1) * ckInterval
      /\ (ckRound - 1) * ckInterval < ckMaxWait

\* The process has a status exactly when it has ended, and it is 0 or 1.
ExitStatusZeroOrOne ==
    /\ ckPc = "exit" <=> ckExit # -1
    /\ ckExit \in {-1, 0, 1}

\* The environment gives a positive interval and a max_wait that the
\* rounds explored cover (or the run ends before it polls).
PollingCovered ==
    LET mw == ParseInt(ckEnv.max_wait, DefaultMaxWait)
        iv == ParseInt(ckEnv.interval, DefaultInterval)
    IN \/ ~mw.ok
       \/ ~iv.ok
       \/ ~(ckEnv.repo /\ ckEnv.token)
       \/ iv.val > 0 /\ mw.val <= MaxRounds * iv.val

\* C11: check_main_ran ends with status 0 or 1.  With a positive interval
\* the polling rounds are finitely many, each round adding at least one
\* interval to the time since start, and the process eventually exits,
\* whatever the replies of the sentinel, workflow and runs requests are.
C11_Terminates ==
    /\ [](RoundsAdvanceClock /\ ExitStatusZeroOrOne)
    /\ (PollingCovered ~> (ckPc = "exit" /\ ckExit \in {0, 1}))

\* The run polled twice with a positive interval, no check finding
\* anything, some check having raised or failed, and ended by the timeout.
C11_Witness ==
    /\ ckPc = "exit"
    /\ ckHow = "timeout"
    /\ IntervalPositive
    /\ ckRound >= 2
    /\ \A k \in 1..Len(ckChecks) : ~ckChecks[k].found


(***************************************************************************)
(* Properties of compute_metrics                                           *)
(***************************************************************************)

\* The number an observation's value denotes, in hundredths.
Reading(o) == o.value[2]

\* C12: for a series of at least two observations compute_metrics returns
\* the last two readings as last_value and prev_value, their difference as
\* delta and delta / prev_value * 100 as pct_change, which is 0 when
\* prev_value is 0; for a single observation prev_value is None and delta
\* and pct_change are 0.
C12_MetricsOfLastTwo ==
    mPc = "returned" =>
      LET n == Len(mObs)
      IN /\ mOut.last_value = Reading(mObs[n])
         /\ mOut.last_date = mObs[n].date
         /\ n >= 2 =>
              /\ mOut.prev_value = <<Reading(mObs[n - 1])>>
              /\ mOut.prev_date = <<mObs[n - 1].date>>
              /\ mOut.delta = Reading(mObs[n]) - Reading(mObs[n - 1])
              /\ Reading(mObs[n - 1]) # 0 =>
                   mOut.pct_change[1] * Reading(mObs[n - 1])
                     = mOut.delta * 100 * mOut.pct_change[2]
              /\ Reading(mObs[n - 1]) = 0 => mOut.pct_change[1] = 0
         /\ n = 1 =>
              /\ mOut.prev_value = <<>>
              /\ mOut.prev_date = <<>>
              /\ mOut.delta = 0
              /\ mOut.pct_change[1] = 0
         /\ mOut.pct_change[2] > 0

\* compute_metrics returned for a series of three observations whose last
\* two differ and whose first differs from the second.
C12_Witness ==
    /\ mPc = "returned"
    /\ Len(mObs) = 3
    /\ mOut.delta < 0
    /\ mOut.pct_change[1] < 0
    /\ Reading(mObs[1]) # Reading(mObs[2])

\* The threshold of the script called, in hundredths of a percent.
ThresholdHundredths ==
    IF mScript = "coal" THEN 50 ELSE IF mScript = "rbob" THEN 75 ELSE 100

\* C13: the trend is 'alta' exactly when pct_change > T, 'queda' exactly
\* when pct_change < -T and 'estabilidade' otherwise, T being 0.5 for coal,
\* 0.75 for RBOB and 1.0 for JKM; pct_change equal to T or -T, a zero
\* previous value and a single observation give 'estabilidade'.
C13_TrendByThreshold ==
    mPc = "returned" =>
      LET num == mOut.pct_change[1]
          den == mOut.pct_change[2]
          T == ThresholdHundredths
      IN /\ mOut.trend \in {"alta", "queda", "estabilidade"}
         /\ mOut.trend = "alta" <=> num * 100 > T * den
         /\ mOut.trend = "queda" <=> num * 100 < (-T) * den
         /\ mOut.trend = "estabilidade" <=>
              (num * 100 <= T * den /\ num * 100 >= (-T) * den)
         /\ (Len(mObs) = 1 \/ mOut.prev_value = <<0>>) =>
              mOut.trend = "estabilidade"

\* compute_metrics returned 'estabilidade' for a change of exactly -T.
C13_Witness ==
    /\ mPc = "returned"
    /\ mOut.trend = "estabilidade"
    /\ mOut.pct_change[1] * 100 = (-ThresholdHundredths) * mOut.pct_change[2]


(***************************************************************************)
(* Properties of gas fetch_prices                                          *)
(***************************************************************************)

\* The sources whose key is set, in the priority EIA, AlphaVantage, NASDAQ.
WithKey ==
    SelectSeq(<<"eia", "alpha", "nasdaq">>,
              LAMBDA src : fpEnv[src] \notin {"unset", "blank"})

\* The sources called so far, in the order called.
Called == [i \in 1..Len(fpTried) |-> fpTried[i].src]

IsPrefix(a, b) == Len(a) <= Len(b) /\ \A i \in 1..Len(a) : a[i] = b[i]

\* C14: fetch_prices calls the sources whose key is set in the order EIA,
\* AlphaVantage, NASDAQ Data Link, and no other; it returns what the first
\* source that succeeds returned, every source called before it having
\* failed, and mock prices when every source with a key was called and
\* failed; it always returns, and the dict has the keys henry_hub_spot,
\* front_month and unit.
C14_FirstSourceThatSucceeds ==
    /\ IsPrefix(Called, WithKey)
    /\ \A i \in 1..Len(fpTried) : fpTried[i].ok => i = Len(fpTried)
    /\ fpPc \in {"eia", "alpha", "nasdaq", "fred", "mock", "returned"}
    /\ fpPc = "returned" =>
         /\ DOMAIN fpResult = {"henry_hub_spot", "front_month", "unit"}
         /\ fpResult.unit = "USD/MMBtu"
         /\ fpFrom \in {"eia", "alpha", "nasdaq", "mock"}
         /\ fpFrom # "mock" =>
              /\ fpTried # <<>>
              /\ fpTried[Len(fpTried)] = [src |-> fpFrom, ok |-> TRUE]
         /\ fpFrom = "mock" =>
              /\ Called = WithKey
              /\ \A i \in 1..Len(fpTried) : ~fpTried[i].ok
    /\ fpPc # "returned" =>
         /\ fpFrom = "none"
         /\ \A i \in 1..Len(fpTried) : ~fpTried[i].ok
         /\ ENABLED NextPrices

\* fetch_prices returned what AlphaVantage gave after EIA had failed, the
\* NASDAQ key being set too.
C14_Witness ==
    /\ fpPc = "returned"
    /\ fpFrom = "alpha"
    /\ Called = <<"eia", "alpha">>
    /\ fpEnv.nasdaq = "key"


(***************************************************************************)
(* Properties of send_to_telegram                                          *)
(***************************************************************************)

\* The variable holds something other than blanks.
NonEmpty(e) == e = "value"

\* C15: send_to_telegram posts to TELEGRAM_CHAT_ID_TEST exactly when
\* preview is true and that variable is non-empty, and to
\* TELEGRAM_CHAT_ID_ENERGY otherwise; with an empty bot token or an empty
\* selected chat id it makes no post; a post that fails is printed as
\* failed and the call returns all the same.
C15_ChatSelection ==
    LET toTest == tgPreview /\ NonEmpty(tgEnv.chat_test)
        chosen == IF toTest THEN tgEnv.chat_test ELSE tgEnv.chat_main
    IN /\ Len(tgPosts) <= 1
       /\ tgPc = "call" => (tgPosts = <<>> /\ ENABLED NextTelegram)
       /\ \A i \in 1..Len(tgPosts) :
            /\ tgPosts[i].chat = "test" <=> toTest
            /\ tgPosts[i].chat = "main" <=> ~toTest
            /\ tgPc = "returned"
            /\ tgPosts[i].reply # "ok" <=> tgPrinted = "failed"
       /\ (~NonEmpty(tgEnv.token) \/ ~NonEmpty(chosen)) => tgPosts = <<>>
       /\ (tgPc = "returned" /\ tgRequests /\ NonEmpty(tgEnv.token)
             /\ NonEmpty(chosen)) => Len(tgPosts) = 1

\* A preview call with TELEGRAM_CHAT_ID_TEST blank posted to the main chat,
\* the post failed and the call returned.
C15_Witness ==
    /\ tgPc = "returned"
    /\ tgPreview
    /\ tgEnv.chat_test = "blank"
    /\ Len(tgPosts) = 1
    /\ tgPosts[1].chat = "main"
    /\ tgPosts[1].reply = "raise"
    /\ tgPrinted = "failed"


(***************************************************************************)
(* Properties of coal_daily                                                *)
(***************************************************************************)

\* build_structured_report has returned.
Built == coPc \in {"save", "send", "done"} \/ (coPc \in {"notify", "raised"} /\ coBuild # "none")

\* The text of the report is the template's.
FromTemplate == coReport.html[1] = "template"

ErrorPosts == SelectSeq(coPosts, LAMBDA p : p.kind = "error")

ValidInstants(csv) ==
    {csv.dates[i].wall - csv.dates[i].offset :
       i \in {j \in 1..Len(csv.dates) : csv.dates[j].kind # "invalid"}}

\* The CSV is non-empty and, if it has a date column, its latest valid date
\* is no more than 45 days before now.
Fresh45(csv) ==
    /\ csv.kind \in {"no_date", "dated"}
    /\ csv.kind = "dated" =>
         \E t \in ValidInstants(csv) : smNow - t <= 45 * 24

\* C18: smoke_check_inventories exits 0 exactly when each of the three CSVs
\* is non-empty and, having a date column, has its latest valid date no
\* more than 45 days before now; otherwise it exits 2, having checked the
\* files up to the first failing one and none after it.
C18_ExitZeroIffAllFresh ==
    /\ smExit \in {-1, 0, 2}
    /\ smPc = "exit" <=> smExit # -1
    /\ smExit = 0 <=> (smPc = "exit" /\ \A i \in 1..3 : Fresh45(smFiles[i]))
    /\ smExit = 2 <=> (smPc = "exit" /\ \E i \in 1..3 : ~Fresh45(smFiles[i]))
    /\ \A k \in 1..Len(smChecked) : smChecked[k] = k
    /\ smExit = 2 =>
         LET first == CHOOSE i \in 1..3 :
                        /\ ~Fresh45(smFiles[i])
                        /\ \A j \in 1..(i - 1) : Fresh45(smFiles[j])
         IN Len(smChecked) = first
    /\ smExit = 0 => Len(smChecked) = 3
    /\ smPc # "exit" => ENABLED NextSmoke

\* The run exited 2 at the second file, whose latest date is too old only
\* once brought to UTC, the third file being unreadable and unchecked.
C18_Witness ==
    /\ smExit = 2
    /\ smChecked = <<1, 2>>
    /\ smFiles[2].kind = "dated"
    /\ \E i \in 1..Len(smFiles[2].dates) : smFiles[2].dates[i].kind = "aware"
    /\ smFiles[3].kind = "unreadable"


(***************************************************************************)
(* Properties of title_counter                                             *)
(***************************************************************************)

\* The number stored under key in file f: 0 when the file is missing or
\* unreadable or has no such key.
Stored(f, key) ==
    IF f.kind = "dict" /\ f.vals[key] # -1 THEN f.vals[key] ELSE 0

\* No call so far ran while another did.
NoOverlapSoFar == \A i \in 1..Len(ctLog) : ~ctLog[i].overlapped

\* C19: a call of title_counter that overlaps no other returns the number
\* stored under its key plus 1 (1 when the file is missing, unreadable or
\* has no such key) and leaves it stored, with every other key of a
\* readable file as it was; n such calls for one key on a fresh file
\* return 1, 2, ..., n.
C19_CounterIncrements ==
    /\ \A i \in 1..Len(ctLog) :
         ~ctLog[i].overlapped =>
           LET c == ctLog[i]
           IN /\ c.ret = Stored(c.before, c.key) + 1
              /\ c.after.kind = "dict"
              /\ c.after.vals[c.key] = c.ret
              /\ \A o \in {"diario_oil", "diario_gas"} \ {c.key} :
                   c.after.vals[o] =
                     (IF c.before.kind = "dict" THEN c.before.vals[o] ELSE -1)
    /\ (NoOverlapSoFar /\ ctLog # <<>> /\ ctLog[1].before.kind = "missing") =>
         \A i \in 1..Len(ctLog) :
           ctLog[i].ret =
             Cardinality({j \in 1..i : ctLog[j].key = ctLog[i].key})

\* Two calls for one key with a call for the other key between them, none
\* overlapping, on a fresh file: the second call for the key returned 2
\* and the other key kept its 1.
C19_Witness ==
    /\ NoOverlapSoFar
    /\ Len(ctLog) = 3
    /\ ctLog[1].before.kind = "missing"
    /\ ctLog[2].key # ctLog[1].key
    /\ ctLog[3].key = ctLog[1].key
    /\ ctLog[3].ret = 2
    /\ ctLog[3].after.vals[ctLog[2].key] = 1

\* Two calls for one key returned the same number.
SameNumberTwice ==
    \E i, j \in 1..Len(ctLog) :
      /\ i < j
      /\ ctLog[i].key = ctLog[j].key
      /\ ctLog[i].ret = ctLog[j].ret

\* No call is running and the file holds, under the key of a returned
\* call, less than that call returned.
IncrementLost ==
    /\ \A p \in {"oil_daily", "gas_daily"} : ctPc[p] = "idle"
    /\ \E i \in 1..Len(ctLog) : Stored(ctFile, ctLog[i].key) < ctLog[i].ret

\* C20: title_counter does not protect the file against concurrent calls:
\* two calls whose read and write steps interleave can return the same
\* number, and the increment of one key can be lost to a call for another
\* key (see the witness); without such an interleaving neither happens.
C20_LostUpdateOnlyByOverlap ==
    (SameNumberTwice \/ IncrementLost) =>
      \E i \in 1..Len(ctLog) : ctLog[i].overlapped

\* Overlapping calls have returned: two of them, for one key, returned the
\* same number, and the increment a call made for the other key is no
\* longer in the file.
C20_Witness ==
    /\ SameNumberTwice
    /\ \A p \in {"oil_daily", "gas_daily"} : ctPc[p] = "idle"
    /\ \E i \in 1..Len(ctLog) :
         /\ ctLog[i].key # ctLog[Len(ctLog)].key
         /\ ctLog[i].overlapped
         /\ Stored(ctFile, ctLog[i].key) < ctLog[i].ret


(***************************************************************************)
(* Properties of fetch_uranium_from_fred                                   *)
(***************************************************************************)

\* The value is not missing, not ".", not empty, and float() accepts it.
ValidValue(v) == v \notin {NoneValue, DotValue, EmptyValue} /\ Float(v).ok

\* The positions of the reply whose observation has a valid value.
ValidPositions ==
    {i \in 1..Len(urReply.observations) :
       ValidValue(urReply.observations[i].value)}

\* The reply was parsed: JSON, with or without a list of observations.
ReplyParsed == urReply.kind \in {"no_key", "list"}

UrDone == urPc \in {"returned", "raised"}

RowOf(o) == [date |-> o.date[2], price |-> o.value[2]]

\* The rows returned are the observations with a valid value, each once,
\* by ascending date, so that the last row has the latest date.
RowsAreValidObservations ==
    /\ urRows # <<>>
    /\ AscendingByDate(urRows)
    /\ Len(urRows) = Cardinality(ValidPositions)
    /\ \A i \in ValidPositions :
         LET row == RowOf(urReply.observations[i])
         IN Cardinality({k \in 1..Len(urRows) : urRows[k] = row})
              = Cardinality({j \in ValidPositions :
                               RowOf(urReply.observations[j]) = row})
    /\ \A i \in ValidPositions :
         urReply.observations[i].date[2] <= urRows[Len(urRows)].date

\* C21 as stated: on a parsed reply the function skips every observation
\* whose value is missing, ".", empty or not numeric, raises RuntimeError
\* when there is no observation or none with a valid value, and otherwise
\* returns the valid observations, non-empty, by ascending date.
C21_RuntimeErrorOrSortedRows ==
    (UrDone /\ ReplyParsed) =>
        IF ValidPositions = {}
          THEN urPc = "raised" /\ urError = "RuntimeError"
          ELSE urPc = "returned" /\ RowsAreValidObservations

\* The valid positions whose date strptime rejects.
UndatedPositions ==
    {i \in ValidPositions : Strptime(urReply.observations[i].date).err # "none"}

FirstUndated == CHOOSE i \in UndatedPositions : \A j \in UndatedPositions : i <= j

\* C21, amended: on a parsed reply the function raises RuntimeError when
\* there is no observation or none with a valid value; when an observation
\* with a valid value has a date that is missing or not '%Y-%m-%d' it ends
\* with strptime's TypeError or ValueError for the first such observation;
\* otherwise it returns the observations with a valid value, non-empty, by
\* ascending date.  A reply that was not parsed ends with the exception of
\* requests, never with RuntimeError.
C21_RuntimeErrorDateErrorOrSortedRows ==
    UrDone =>
        IF ~ReplyParsed
          THEN urPc = "raised" /\ urError \in {"RequestException", "JSONDecodeError"}
        ELSE IF ValidPositions = {}
          THEN urPc = "raised" /\ urError = "RuntimeError"
        ELSE IF UndatedPositions # {}
          THEN /\ urPc = "raised"
               /\ urError = Strptime(urReply.observations[FirstUndated].date).err
               /\ urError \in {"TypeError", "ValueError"}
        ELSE urPc = "returned" /\ RowsAreValidObservations

\* A call that returned two rows out of three observations, in another
\* order than FRED gave them.
C21_Witness ==
    /\ urPc = "returned"
    /\ Len(urReply.observations) = 3
    /\ Len(urRows) = 2
    /\ urRows # CollectRows(urReply.observations, <<>>).rows


(***************************************************************************)
(* Properties of the template pipelines                                    *)
(***************************************************************************)

\* The positions of posts that carry the report itself.
ReportPosts(posts) == {i \in 1..Len(posts) : posts[i].kind = "report"}

\* Answers of the Telegram API that are errors: a body that is not JSON, ok
\* false.
ApiErrorReplies == {"not_json", "ok_false"}

AnsweredWithError(posts) ==
    \E i \in ReportPosts(posts) : posts[i].reply \in ApiErrorReplies

\* coal_daily: the post is attempted only with the artifact on disk, never
\* after a failed write, and an error answer leaves the run successful.
CoalArtifactBeforePost ==
    /\ (coPc = "send" \/ ReportPosts(coPosts) # {}) =>
           (coSaved # NoReport /\ coSaved = coReport)
    /\ coError = "open" => (coSaved = NoReport /\ ReportPosts(coPosts) = {})
    /\ AnsweredWithError(coPosts) =>
           (coPc = "done" /\ coError = NoError /\ coRaised = NoError)

\* rbob_daily, jkm_lng_daily: the same, a write failing in os.makedirs or
\* in open.
GasArtifactBeforePost ==
    /\ (gdPc = "send" \/ ReportPosts(gdPosts) # {}) =>
           (gdSaved # NoReport /\ gdSaved = gdResult)
    /\ gdError \in {"makedirs", "open"} =>
           (gdSaved = NoReport /\ ReportPosts(gdPosts) = {})
    /\ AnsweredWithError(gdPosts) => (gdPc = "done" /\ gdError = NoError)

\* C22: in coal_daily, rbob_daily and jkm_lng_daily the JSON artifact is
\* written before the Telegram post is attempted: a run whose write failed
\* posts no report, and an error answer of the Telegram API (ok false, a
\* body that is not JSON) does not make the run fail once the artifact is
\* written.
C22_ArtifactBeforePost ==
    /\ CoalArtifactBeforePost
    /\ GasArtifactBeforePost

\* A run of jkm_lng_daily that wrote its artifact, posted the report, was
\* answered ok false and ended normally.
C22_Witness ==
    /\ gdScript = "jkm"
    /\ gdPc = "done"
    /\ gdSaved # NoReport
    /\ gdPosts = <<[kind |-> "report", reply |-> "ok_false"]>>

====
